---------------------------- MODULE Spec2Model ----------------------------
(***************************************************************************)
(* A model of the ROI tracker (src/src/main.rs): the statement parser      *)
(* parse_positions_csv with its primitive parsers and header detector, the *)
(* Position analytics, and AddForm::try_build_position.                    *)
(*                                                                         *)
(* Cells are strings and every conversion works on their characters.       *)
(* Option<T> is a sequence of length <= 1.  An f64 is an exact fraction    *)
(* (every literal of the vocabulary is a short decimal), a NaiveDate is    *)
(* its (y, m, d).                                                          *)
(***************************************************************************)
EXTENDS Integers, Sequences, FiniteSets, TLC

\* The longest file read, in rows (a bound of the model).
MaxRows == 4

\* The longest path typed into the import form.
MaxPath == 2

\* The most cells of a row detect_header is called on.
MaxCols == 6

\* Imports are made while the portfolio has fewer positions than this.
MaxPortfolio == 5

----------------------------------------------------------------------------
\* Option<T>
None == <<>>

Some(x) == <<x>>

IsSome(o) == Len(o) = 1

Unwrap(o) == o[1]

----------------------------------------------------------------------------
\* Characters and string helpers of the standard library.

Ch(s, i) == SubSeq(s, i, i)

UpperChars == "ABCDEFGHIJKLMNOPQRSTUVWXYZ"

LowerChars == "abcdefghijklmnopqrstuvwxyz"

DigitChars == "0123456789"

UpperSet == {Ch(UpperChars, i) : i \in 1..Len(UpperChars)}

LowerSet == {Ch(LowerChars, i) : i \in 1..Len(LowerChars)}

DigitSet == {Ch(DigitChars, i) : i \in 1..Len(DigitChars)}

IsUpper(c) == c \in UpperSet

IsLower(c) == c \in LowerSet

IsDigit(c) == c \in DigitSet

\* char::is_ascii_alphanumeric
IsAsciiAlphanumeric(c) == IsUpper(c) \/ IsLower(c) \/ IsDigit(c)

\* char::is_whitespace, on the characters a statement holds
IsWhitespace(c) == c \in {" ", "\t"}

\* char::to_ascii_lowercase on the upper-case letters
LowerOf ==
    [c \in UpperSet |->
        Ch(LowerChars, CHOOSE i \in 1..Len(UpperChars) : Ch(UpperChars, i) = c)]

\* char::to_ascii_uppercase on the lower-case letters
UpperOf ==
    [c \in LowerSet |->
        Ch(UpperChars, CHOOSE i \in 1..Len(LowerChars) : Ch(LowerChars, i) = c)]

LowerChar(c) == IF IsUpper(c) THEN LowerOf[c] ELSE c

UpperChar(c) == IF IsLower(c) THEN UpperOf[c] ELSE c

RECURSIVE ToAsciiLowercase(_)
\* str::to_ascii_lowercase
ToAsciiLowercase(s) ==
    IF Len(s) = 0 THEN ""
    ELSE LowerChar(Ch(s, 1)) \o ToAsciiLowercase(SubSeq(s, 2, Len(s)))

RECURSIVE ToAsciiUppercase(_)
\* str::to_ascii_uppercase
ToAsciiUppercase(s) ==
    IF Len(s) = 0 THEN ""
    ELSE UpperChar(Ch(s, 1)) \o ToAsciiUppercase(SubSeq(s, 2, Len(s)))

RECURSIVE TrimStart(_)
TrimStart(s) ==
    IF Len(s) > 0 /\ IsWhitespace(Ch(s, 1)) THEN TrimStart(SubSeq(s, 2, Len(s)))
    ELSE s

RECURSIVE TrimEnd(_)
TrimEnd(s) ==
    IF Len(s) > 0 /\ IsWhitespace(Ch(s, Len(s))) THEN TrimEnd(SubSeq(s, 1, Len(s) - 1))
    ELSE s

\* str::trim
Trim(s) == TrimEnd(TrimStart(s))

\* str::contains
Contains(s, sub) ==
    \E i \in 1..(Len(s) - Len(sub) + 1) : SubSeq(s, i, i + Len(sub) - 1) = sub

\* str::starts_with
StartsWith(s, prefix) ==
    Len(s) >= Len(prefix) /\ SubSeq(s, 1, Len(prefix)) = prefix

RECURSIVE Join(_, _)
\* [String]::join
Join(parts, sep) ==
    IF Len(parts) = 0 THEN ""
    ELSE IF Len(parts) = 1 THEN parts[1]
    ELSE parts[1] \o sep \o Join(Tail(parts), sep)

RECURSIVE Split(_, _)
\* The pieces of s between the occurrences of the character sep.
Split(s, sep) ==
    LET hits == {i \in 1..Len(s) : Ch(s, i) = sep}
    IN  IF hits = {} THEN <<s>>
        ELSE LET k == CHOOSE i \in hits : \A j \in hits : i <= j
             IN  <<SubSeq(s, 1, k - 1)>> \o Split(SubSeq(s, k + 1, Len(s)), sep)

AllDigits(s) == \A i \in 1..Len(s) : IsDigit(Ch(s, i))

DigitOf == [c \in DigitSet |-> CHOOSE v \in 0..9 : Ch(DigitChars, v + 1) = c]

DigitVal(c) == DigitOf[c]

RECURSIVE DigitsVal(_)
\* The number a string of digits writes ("" is 0).
DigitsVal(s) ==
    IF Len(s) = 0 THEN 0
    ELSE 10 * DigitsVal(SubSeq(s, 1, Len(s) - 1)) + DigitVal(Ch(s, Len(s)))

RECURSIVE Pow10(_)
Pow10(k) == IF k = 0 THEN 1 ELSE 10 * Pow10(k - 1)

----------------------------------------------------------------------------
\* f64 values, as exact fractions in lowest terms with a positive denominator.

Abs(n) == IF n < 0 THEN -n ELSE n

RECURSIVE Gcd(_, _)
Gcd(a, b) == IF b = 0 THEN a ELSE Gcd(b, a % b)

Rat(n, d) ==
    LET g == Gcd(Abs(n), d)
    IN  [num |-> n \div g, den |-> d \div g]

RMul(a, b) == Rat(a.num * b.num, a.den * b.den)

RSub(a, b) == Rat(a.num * b.den - b.num * a.den, a.den * b.den)

\* a / b for b # 0
RDiv(a, b) ==
    IF b.num > 0 THEN Rat(a.num * b.den, a.den * b.num)
    ELSE Rat(-(a.num * b.den), a.den * (-b.num))

RLess(a, b) == a.num * b.den < b.num * a.den

RInt(n) == Rat(n, 1)

----------------------------------------------------------------------------
\* Primitive parsers.

\* str::parse::<f64> on decimal literals: an optional sign, digits, an optional
\* point and digits, at least one digit in all.
ParseFloat(s) ==
    LET signed == Len(s) > 0 /\ Ch(s, 1) \in {"+", "-"}
        neg    == Len(s) > 0 /\ Ch(s, 1) = "-"
        body   == IF signed THEN SubSeq(s, 2, Len(s)) ELSE s
        parts  == Split(body, ".")
        ip     == parts[1]
        fp     == IF Len(parts) = 2 THEN parts[2] ELSE ""
    IN  IF Len(parts) > 2 \/ ~AllDigits(ip) \/ ~AllDigits(fp) \/ Len(ip) + Len(fp) = 0
        THEN None
        ELSE Some(Rat((IF neg THEN -1 ELSE 1) * DigitsVal(ip \o fp), Pow10(Len(fp))))

RECURSIVE Cleaned(_)
\* parse_number's loop: drop every ',', '$' and ' '.
Cleaned(s) ==
    IF Len(s) = 0 THEN ""
    ELSE IF Ch(s, 1) \in {",", "$", " "} THEN Cleaned(SubSeq(s, 2, Len(s)))
    ELSE Ch(s, 1) \o Cleaned(SubSeq(s, 2, Len(s)))

\* parse_number: None for a missing or unparsable field.
parse_number(raw) ==
    LET trimmed == Trim(raw)
    IN  IF trimmed = "" \/ trimmed = "--" THEN None
        ELSE ParseFloat(Cleaned(trimmed))

\* Result<T, String>
Ok(v) == [ok |-> TRUE, val |-> v, err |-> ""]

Err(msg) == [ok |-> FALSE, val |-> None, err |-> msg]

\* A mutation: an unparsable number reads as zero.
parse_f64_Zero(raw, label) ==
    LET n == parse_number(raw)
    IN  IF IsSome(n) THEN Ok(Unwrap(n)) ELSE Ok(RInt(0))

\* parse_f64
parse_f64(raw, label) ==
    LET n == parse_number(raw)
    IN  IF IsSome(n) THEN Ok(Unwrap(n)) ELSE Err("Invalid " \o label)

IsLeap(y) == (y % 4 = 0 /\ y % 100 # 0) \/ y % 400 = 0

DaysInMonth(y, m) ==
    IF m = 2 THEN (IF IsLeap(y) THEN 29 ELSE 28)
    ELSE IF m \in {4, 6, 9, 11} THEN 30 ELSE 31

\* NaiveDate::from_ymd_opt
FromYmdOpt(y, m, d) ==
    IF m \in 1..12 /\ d >= 1 /\ d <= DaysInMonth(y, m)
    THEN Some([y |-> y, m |-> m, d |-> d])
    ELSE None

\* One numeric item of a chrono format: 1..width digits.
NumericItem(s, width) == Len(s) >= 1 /\ Len(s) <= width /\ AllDigits(s)

\* NaiveDate::parse_from_str(s, "%Y-%m-%d")
ParseIso(s) ==
    LET p == Split(s, "-")
    IN  IF Len(p) = 3 /\ NumericItem(p[1], 4) /\ NumericItem(p[2], 2) /\ NumericItem(p[3], 2)
        THEN FromYmdOpt(DigitsVal(p[1]), DigitsVal(p[2]), DigitsVal(p[3]))
        ELSE None

\* NaiveDate::parse_from_str(s, "%m/%d/%Y")
ParseUs(s) ==
    LET p == Split(s, "/")
    IN  IF Len(p) = 3 /\ NumericItem(p[1], 2) /\ NumericItem(p[2], 2) /\ NumericItem(p[3], 4)
        THEN FromYmdOpt(DigitsVal(p[3]), DigitsVal(p[1]), DigitsVal(p[2]))
        ELSE None

\* parse_date_any: ISO first, then the US form.
parse_date_any(raw) ==
    LET trimmed == Trim(raw)
    IN  IF IsSome(ParseIso(trimmed)) THEN ParseIso(trimmed) ELSE ParseUs(trimmed)

\* parse_date
parse_date(raw, label) ==
    LET d == parse_date_any(raw)
    IN  IF IsSome(d) THEN Ok(Unwrap(d))
    ELSE Err("Invalid " \o label \o ", expected YYYY-MM-DD or MM/DD/YYYY")

\* A mutation: the ticker is trimmed but keeps its case.
parse_ticker_KeepCase(raw) ==
    LET trimmed == Trim(raw)
    IN  IF trimmed = "" THEN Err("Ticker cannot be empty")
        ELSE Ok(trimmed)

\* parse_ticker
parse_ticker(raw) ==
    LET trimmed == Trim(raw)
    IN  IF trimmed = "" THEN Err("Ticker cannot be empty")
        ELSE Ok(ToAsciiUppercase(trimmed))

\* NaiveDate's order
DateLess(a, b) ==
    \/ a.y < b.y
    \/ a.y = b.y /\ a.m < b.m
    \/ a.y = b.y /\ a.m = b.m /\ a.d < b.d

\* Days from 1970-01-01 to the date (the proleptic Gregorian calendar).
DayNumber(dt) ==
    LET y   == IF dt.m <= 2 THEN dt.y - 1 ELSE dt.y
        era == y \div 400
        yoe == y - era * 400
        mp  == IF dt.m > 2 THEN dt.m - 3 ELSE dt.m + 9
        doy == (153 * mp + 2) \div 5 + dt.d - 1
        doe == yoe * 365 + yoe \div 4 - yoe \div 100 + doy
    IN  era * 146097 + doe - 719468

----------------------------------------------------------------------------
\* Position and its analytics.

Position(ticker, cost, qty, sale_price, purchase_date, sale_date) ==
    [ticker |-> ticker, cost_per_share |-> cost, quantity |-> qty,
     sale_price |-> sale_price, purchase_date |-> purchase_date,
     sale_date |-> sale_date]

invested(p) == RMul(p.cost_per_share, p.quantity)

proceeds(p) == RMul(p.sale_price, p.quantity)

\* A mutation: the profit is what was paid less what was received.
roi_value_Swapped(p) == RSub(invested(p), proceeds(p))

roi_value(p) == RSub(proceeds(p), invested(p))

\* roi_pct where invested is not zero
roi_pct(p) == RDiv(roi_value(p), invested(p))

\* A mutation: the days held are not raised to 1.
days_held_NoFloor(p) == DayNumber(p.sale_date) - DayNumber(p.purchase_date)

\* A mutation: the days held are raised to 0, not to 1.
days_held_FloorZero(p) ==
    LET days == DayNumber(p.sale_date) - DayNumber(p.purchase_date)
    IN  IF days > 0 THEN days ELSE 0

days_held(p) ==
    LET days == DayNumber(p.sale_date) - DayNumber(p.purchase_date)
    IN  IF days > 1 THEN days ELSE 1

\* The f64 values of the figures that are quotients or powers: a finite
\* number val ("finite"), a NaN ("nan"), an infinity ("inf", "-inf"), or the
\* finite number val^exp - 1 that powf gives ("powf").
F64(cls, val, exp) == [cls |-> cls, val |-> val, exp |-> exp]

Finite(r) == F64("finite", r, RInt(1))

NaN == F64("nan", RInt(0), RInt(1))

Infinity == F64("inf", RInt(0), RInt(1))

NegInfinity == F64("-inf", RInt(0), RInt(1))

\* a / b in f64. A zero divisor gives NaN for 0/0 and otherwise an infinity
\* whose sign is that of a, turned round when the divisor is -0.0.
FDiv(a, b, neg_zero) ==
    IF b.num # 0 THEN Finite(RDiv(a, b))
    ELSE IF a.num = 0 THEN NaN
    ELSE IF (a.num > 0) # neg_zero THEN Infinity
    ELSE NegInfinity

\* invested is -0.0: the product of a zero and a negative number.
InvestedNegZero(p) ==
    /\ invested(p).num = 0
    /\ p.cost_per_share.num < 0 \/ p.quantity.num < 0

\* roi_pct for every record, those with nothing invested included.
roi_pct_f64(p) == FDiv(roi_value(p), invested(p), InvestedNegZero(p))

\* x / n in f64, n a positive whole number.
FOver(x, n) ==
    IF x.cls = "finite" THEN Finite(RDiv(x.val, RInt(n))) ELSE x

roi_per_day(p) == FOver(roi_pct_f64(p), days_held(p))

\* multiple <= 0.0 is false of a NaN and of +infinity; powf with the positive
\* exponent 1 / years keeps a NaN and +infinity, and so does the - 1.0.
annualized_roi(p) ==
    LET multiple == FDiv(proceeds(p), invested(p), InvestedNegZero(p))
    IN  IF multiple.cls = "nan" THEN NaN
        ELSE IF multiple.cls = "-inf" THEN Finite(RInt(-1))
        ELSE IF multiple.cls = "inf" THEN Infinity
        ELSE IF ~RLess(RInt(0), multiple.val) THEN Finite(RInt(-1))
        ELSE F64("powf", multiple.val, Rat(365, days_held(p)))

\* The figures the detail pane computes from the selected record.
Detail(p) ==
    [pos |-> p, invested |-> invested(p), proceeds |-> proceeds(p),
     roi_value |-> roi_value(p), roi_pct |-> roi_pct_f64(p),
     annualized_roi |-> annualized_roi(p), roi_per_day |-> roi_per_day(p),
     days_held |-> days_held(p)]

----------------------------------------------------------------------------
\* The header detector.

HeaderIdx(t, c, q, s, bd, sd) ==
    [ticker |-> t, cost |-> c, qty |-> q, sale_price |-> s, buy_date |-> bd,
     sale_date |-> sd]

RECURSIVE KeepAlphanumeric(_)
\* Keep the ASCII alphanumerics, lower-cased.
KeepAlphanumeric(s) ==
    IF Len(s) = 0 THEN ""
    ELSE IF IsAsciiAlphanumeric(Ch(s, 1))
         THEN LowerChar(Ch(s, 1)) \o KeepAlphanumeric(SubSeq(s, 2, Len(s)))
         ELSE KeepAlphanumeric(SubSeq(s, 2, Len(s)))

\* The cells of the rows detect_header is called on.
HeaderCells == {"Symbol", "Cost/Share", "Qty", "Sale Price", "Date", "Buy Date"}

\* For each role, spellings of its names in header rows.
Spellings ==
    {{"Symbol", "Ticker", "SYMBOL"},
     {"Cost/Share", "cost share", "COST_SHARE", "Cost Per Share"},
     {"Qty", "Quantity"},
     {"Sale Price", "Price/Share"},
     {"Buy Date", "Date Added"},
     {"Date", "Sale Date", "sell-date"}}

\* Their sanitized texts, computed once.
SanitizedCells == [c \in HeaderCells \cup UNION Spellings |-> KeepAlphanumeric(c)]

sanitize_header(s) ==
    IF s \in DOMAIN SanitizedCells THEN SanitizedCells[s] ELSE KeepAlphanumeric(s)

TickerNames == {"symbol", "ticker"}

QtyNames == {"qty", "qtynumber", "qtyshare", "quantity", "qtyshares"}

\* A mutation: costpershare is not a name of the cost.
CostNames_Short == {"costshare"}

CostNames == {"costshare", "costpershare"}

SaleNames == {"priceshare", "pricepershare", "saleprice", "sellprice"}

BuyDateNames == {"dateadded", "purchasedate", "buydate"}

DateNames == {"date", "saledate", "selldate"}

\* The 0-based columns of parts whose sanitized text is one of names.
Columns(parts, names) ==
    {i \in 0..(Len(parts) - 1) : sanitize_header(parts[i + 1]) \in names}

MaxOf(S) == CHOOSE x \in S : \A y \in S : y <= x

MinOf(S) == CHOOSE x \in S : \A y \in S : x <= y

\* A role assigned in the loop: the last matching column wins.
LastColumn(parts, names) ==
    IF Columns(parts, names) = {} THEN None ELSE Some(MaxOf(Columns(parts, names)))

\* A mutation: with no generic date column the explicit purchase-date column
\* also serves as the sale date.
detect_header_BuyAsSale(parts) ==
    LET t         == LastColumn(parts, TickerNames)
        cost      == LastColumn(parts, CostNames)
        qty       == LastColumn(parts, QtyNames)
        sale      == LastColumn(parts, SaleNames)
        date_cols == Columns(parts, DateNames)
        first     == MinOf(date_cols)
        explicit  == LastColumn(parts, BuyDateNames)
        buy_d     == IF ~IsSome(explicit) /\ date_cols # {} THEN Some(first)
                     ELSE explicit
        sale_d    == IF Cardinality(date_cols) >= 2
                     THEN Some(MinOf(date_cols \ {first}))
                     ELSE IF date_cols # {} THEN Some(first) ELSE explicit
    IN  IF IsSome(t) /\ IsSome(cost) /\ IsSome(qty) /\ IsSome(sale) /\ IsSome(buy_d)
           /\ IsSome(sale_d)
        THEN Some(HeaderIdx(Unwrap(t), Unwrap(cost), Unwrap(qty), Unwrap(sale),
                            Unwrap(buy_d), Unwrap(sale_d)))
        ELSE None

\* A mutation: the sale date is always the first generic date column.
detect_header_FirstDateOnly(parts) ==
    LET t         == LastColumn(parts, TickerNames)
        cost      == LastColumn(parts, CostNames)
        qty       == LastColumn(parts, QtyNames)
        sale      == LastColumn(parts, SaleNames)
        date_cols == Columns(parts, DateNames)
        first     == MinOf(date_cols)
        explicit  == LastColumn(parts, BuyDateNames)
        buy_d     == IF ~IsSome(explicit) /\ date_cols # {} THEN Some(first)
                     ELSE explicit
        sale_d    == IF date_cols # {} THEN Some(first) ELSE None
    IN  IF IsSome(t) /\ IsSome(cost) /\ IsSome(qty) /\ IsSome(sale) /\ IsSome(buy_d)
           /\ IsSome(sale_d)
        THEN Some(HeaderIdx(Unwrap(t), Unwrap(cost), Unwrap(qty), Unwrap(sale),
                            Unwrap(buy_d), Unwrap(sale_d)))
        ELSE None

detect_header(parts) ==
    LET t         == LastColumn(parts, TickerNames)
        cost      == LastColumn(parts, CostNames)
        qty       == LastColumn(parts, QtyNames)
        sale      == LastColumn(parts, SaleNames)
        date_cols == Columns(parts, DateNames)
        first     == MinOf(date_cols)
        explicit  == LastColumn(parts, BuyDateNames)
        buy_d     == IF ~IsSome(explicit) /\ date_cols # {} THEN Some(first)
                     ELSE explicit
        sale_d    == IF Cardinality(date_cols) >= 2
                     THEN Some(MinOf(date_cols \ {first}))
                     ELSE IF date_cols # {} THEN Some(first) ELSE None
    IN  IF IsSome(t) /\ IsSome(cost) /\ IsSome(qty) /\ IsSome(sale) /\ IsSome(buy_d)
           /\ IsSome(sale_d)
        THEN Some(HeaderIdx(Unwrap(t), Unwrap(cost), Unwrap(qty), Unwrap(sale),
                            Unwrap(buy_d), Unwrap(sale_d)))
        ELSE None

----------------------------------------------------------------------------
\* One iteration of the loop of parse_positions_csv.  The loop's locals are
\* the record st; an iteration ends in Continue (the next row is read) or in
\* Abort (the call returns the error).  at names the place where it ended.

Continue(st, at) == [st |-> st, abort |-> None, at |-> at]

Abort(st, line_no, e) ==
    [st |-> st, abort |-> Some("Line " \o ToString(line_no) \o ": " \o e),
     at |-> "abort"]

\* csv::ReaderBuilder ... trim(Trim::All): every field of a record is trimmed.
ReadRecord(raw) == [i \in 1..Len(raw) |-> Trim(raw[i])]

MarkerPhrase == "taxable g&l details"

\* A mutation: the phrase is compared case-sensitively.
IsSectionMarker_CaseSensitive(fields) == Contains(Join(fields, " "), MarkerPhrase)

IsSectionMarker(fields) ==
    Contains(ToAsciiLowercase(Join(fields, " ")), MarkerPhrase)

\* A mutation: the test on the header is inverted, front matter is not skipped.
BeforeSection_Inverted(st) == ~st.in_details_section /\ IsSome(st.header_idx)

\* Skip anything before the TAXABLE G&L DETAILS table.
BeforeSection(st) == ~st.in_details_section /\ ~IsSome(st.header_idx)

\* A mutation: a row is a summary line only when its first cell is the word.
IsSummaryLine_WordOnly(fields) ==
    LET first == ToAsciiLowercase(Trim(fields[1]))
    IN  first = "total" \/ first = "subtotal"

\* A mutation: only a row of a single cell is a summary line.
IsSummaryLine_SoleCell(fields) ==
    LET first == ToAsciiLowercase(Trim(fields[1]))
    IN  Len(fields) = 1 /\ (Contains(first, "total") \/ Contains(first, "subtotal"))

IsSummaryLine(fields) ==
    LET first == ToAsciiLowercase(Trim(fields[1]))
    IN  \/ Len(fields) = 1 /\ (Contains(first, "total") \/ Contains(first, "subtotal"))
        \/ first = "total"
        \/ first = "subtotal"

\* The closure get: a column the row lacks reads as "".
Get(fields, i) == IF i < Len(fields) THEN fields[i + 1] ELSE ""

\* A mutation: a sell line sets the ticker context.
SetsContext_NoSell(raw_ticker) == raw_ticker # "" /\ raw_ticker # "--"

\* A ticker cell that names a ticker: not blank, not "--", not a sell line.
SetsContext(raw_ticker) ==
    /\ raw_ticker # ""
    /\ raw_ticker # "--"
    /\ ~StartsWith(ToAsciiLowercase(raw_ticker), "sell")

\* A mutation: the sentinel "--" is not taken as missing.
required_missing_NoSentinel(v) == Trim(v) = ""

required_missing(v) == Trim(v) = "" \/ Trim(v) = "--"

AnyRequiredMissing(fields, h) ==
    \/ required_missing(Get(fields, h.cost))
    \/ required_missing(Get(fields, h.qty))
    \/ required_missing(Get(fields, h.sale_price))
    \/ required_missing(Get(fields, h.buy_date))
    \/ required_missing(Get(fields, h.sale_date))

\* A mutation: the comparison of the dates is the wrong way round.
DateOrderViolated_Swapped(purchase_date, sale_date) ==
    DateLess(purchase_date, sale_date)

DateOrderViolated(purchase_date, sale_date) == DateLess(sale_date, purchase_date)

\* A mutation: the two dates are parsed and compared before the numbers.
ParseAndPush_DatesFirst(st, ticker, fields, h, line_no) ==
    LET cost          == parse_f64(Get(fields, h.cost), "cost/share")
        qty           == parse_f64(Get(fields, h.qty), "quantity")
        sale_price    == parse_f64(Get(fields, h.sale_price), "sale price")
        purchase_date == parse_date(Get(fields, h.buy_date), "purchase date")
        sale_date     == parse_date(Get(fields, h.sale_date), "sale date")
    IN  IF ~purchase_date.ok THEN Abort(st, line_no, purchase_date.err)
        ELSE IF ~sale_date.ok THEN Abort(st, line_no, sale_date.err)
        ELSE IF DateOrderViolated(purchase_date.val, sale_date.val)
        THEN Abort(st, line_no, "sale date cannot be before purchase date")
        ELSE IF ~cost.ok THEN Abort(st, line_no, cost.err)
        ELSE IF ~qty.ok THEN Abort(st, line_no, qty.err)
        ELSE IF ~sale_price.ok THEN Abort(st, line_no, sale_price.err)
        ELSE Continue([st EXCEPT !.positions =
                          Append(@, Position(ticker, cost.val, qty.val,
                                             sale_price.val, purchase_date.val,
                                             sale_date.val))],
                      "emit")

\* Parse the five fields in order, check the dates, push the position.
ParseAndPush(st, ticker, fields, h, line_no) ==
    LET cost          == parse_f64(Get(fields, h.cost), "cost/share")
        qty           == parse_f64(Get(fields, h.qty), "quantity")
        sale_price    == parse_f64(Get(fields, h.sale_price), "sale price")
        purchase_date == parse_date(Get(fields, h.buy_date), "purchase date")
        sale_date     == parse_date(Get(fields, h.sale_date), "sale date")
    IN  IF ~cost.ok THEN Abort(st, line_no, cost.err)
        ELSE IF ~qty.ok THEN Abort(st, line_no, qty.err)
        ELSE IF ~sale_price.ok THEN Abort(st, line_no, sale_price.err)
        ELSE IF ~purchase_date.ok THEN Abort(st, line_no, purchase_date.err)
        ELSE IF ~sale_date.ok THEN Abort(st, line_no, sale_date.err)
        ELSE IF DateOrderViolated(purchase_date.val, sale_date.val)
        THEN Abort(st, line_no, "sale date cannot be before purchase date")
        ELSE Continue([st EXCEPT !.positions =
                          Append(@, Position(ticker, cost.val, qty.val,
                                             sale_price.val, purchase_date.val,
                                             sale_date.val))],
                      "emit")

\* A mutation: with no context the record gets an empty ticker.
TickerFor_Default(st) ==
    IF IsSome(st.current_ticker) THEN st.current_ticker ELSE Some("")

\* The ticker a record of this row gets: the context, or none yet.
TickerFor(st) == st.current_ticker

\* The row as a data row under the columns h: skipped when a required field
\* is missing or no ticker is known, parsed otherwise.
DataRow(st, fields, h, line_no) ==
    IF AnyRequiredMissing(fields, h) THEN Continue(st, "partial")
    ELSE IF ~IsSome(TickerFor(st)) THEN Continue(st, "nocontext")
    ELSE ParseAndPush(st, Unwrap(TickerFor(st)), fields, h, line_no)

\* A mutation: a row that sets the context is not evaluated as a data row.
HeaderedRow_ElseIf(st, fields, h, line_no) ==
    LET raw_ticker == Trim(Get(fields, h.ticker))
        parsed     == parse_ticker(raw_ticker)
    IN  IF SetsContext(raw_ticker)
        THEN IF ~parsed.ok THEN Abort(st, line_no, parsed.err)
             ELSE Continue([st EXCEPT !.current_ticker = Some(parsed.val)], "ticker")
        ELSE DataRow(st, fields, h, line_no)

\* The row under the active header h: the ticker cell may set the context,
\* and the row is evaluated as a data row either way.
HeaderedRow(st, fields, h, line_no) ==
    LET raw_ticker == Trim(Get(fields, h.ticker))
        parsed     == parse_ticker(raw_ticker)
    IN  IF SetsContext(raw_ticker)
        THEN IF ~parsed.ok THEN Abort(st, line_no, parsed.err)
             ELSE DataRow([st EXCEPT !.current_ticker = Some(parsed.val)],
                          fields, h, line_no)
        ELSE DataRow(st, fields, h, line_no)

\* The fixed layout of the fallback: ticker,cost,qty,sale,purchase_date,sale_date.
PositionalIdx == HeaderIdx(0, 1, 2, 3, 4, 5)

\* The row with no header: the positional fallback.  A row that names a
\* ticker only sets the context.
FallbackRow(st, fields, line_no) ==
    LET raw_ticker == Trim(Get(fields, 0))
        parsed     == parse_ticker(raw_ticker)
    IN  IF Len(fields) < 6 THEN Continue(st, "short")
        ELSE IF SetsContext(raw_ticker)
        THEN IF ~parsed.ok THEN Abort(st, line_no, parsed.err)
             ELSE Continue([st EXCEPT !.current_ticker = Some(parsed.val)], "ticker")
        ELSE DataRow(st, fields, PositionalIdx, line_no)

\* A mutation: a marker row forgets the ticker context with the header.
ProcessRecord_MarkerForgetsTicker(st, fields, line_no) ==
    IF Len(fields) = 0 THEN Continue(st, "empty")
    ELSE IF IsSectionMarker(fields)
    THEN Continue([st EXCEPT !.in_details_section = TRUE, !.header_idx = None,
                             !.current_ticker = None],
                  "marker")
    ELSE IF BeforeSection(st) THEN Continue(st, "front")
    ELSE IF IsSummaryLine(fields) THEN Continue(st, "summary")
    ELSE IF ~IsSome(st.header_idx)
    THEN LET h == detect_header(fields)
         IN  IF IsSome(h) THEN Continue([st EXCEPT !.header_idx = h], "header")
             ELSE Continue(st, "noise")
    ELSE HeaderedRow(st, fields, Unwrap(st.header_idx), line_no)

\* A mutation: header detection is attempted on every row of the section.
ProcessRecord_Redetect(st, fields, line_no) ==
    IF Len(fields) = 0 THEN Continue(st, "empty")
    ELSE IF IsSectionMarker(fields)
    THEN Continue([st EXCEPT !.in_details_section = TRUE, !.header_idx = None],
                  "marker")
    ELSE IF BeforeSection(st) THEN Continue(st, "front")
    ELSE IF IsSummaryLine(fields) THEN Continue(st, "summary")
    ELSE IF IsSome(detect_header(fields))
    THEN Continue([st EXCEPT !.header_idx = detect_header(fields)], "header")
    ELSE IF IsSome(st.header_idx)
    THEN HeaderedRow(st, fields, Unwrap(st.header_idx), line_no)
    ELSE Continue(st, "noise")

\* A mutation: the row adopted as header is also read as a row under it.
ProcessRecord_HeaderAsData(st, fields, line_no) ==
    IF Len(fields) = 0 THEN Continue(st, "empty")
    ELSE IF IsSectionMarker(fields)
    THEN Continue([st EXCEPT !.in_details_section = TRUE, !.header_idx = None],
                  "marker")
    ELSE IF BeforeSection(st) THEN Continue(st, "front")
    ELSE IF IsSummaryLine(fields) THEN Continue(st, "summary")
    ELSE IF ~IsSome(st.header_idx)
    THEN LET h == detect_header(fields)
         IN  IF IsSome(h)
             THEN HeaderedRow([st EXCEPT !.header_idx = h], fields, Unwrap(h), line_no)
             ELSE Continue(st, "noise")
    ELSE HeaderedRow(st, fields, Unwrap(st.header_idx), line_no)

\* The loop body on one record.
ProcessRecord(st, fields, line_no) ==
    IF Len(fields) = 0 THEN Continue(st, "empty")
    ELSE IF IsSectionMarker(fields)
    THEN Continue([st EXCEPT !.in_details_section = TRUE, !.header_idx = None],
                  "marker")
    ELSE IF BeforeSection(st) THEN Continue(st, "front")
    ELSE IF IsSummaryLine(fields) THEN Continue(st, "summary")
    ELSE IF ~IsSome(st.header_idx)
    THEN LET h == detect_header(fields)
         IN  IF IsSome(h) THEN Continue([st EXCEPT !.header_idx = h], "header")
             ELSE Continue(st, "noise")
    ELSE IF IsSome(st.header_idx)
    THEN HeaderedRow(st, fields, Unwrap(st.header_idx), line_no)
    ELSE FallbackRow(st, fields, line_no)

\* A mutation: an empty list is returned as a success.
Finish_EmptyOk(ps) == Ok(ps)

\* A mutation: the records are returned last first.
Finish_Reversed(ps) ==
    IF Len(ps) = 0 THEN Err("No rows found to import")
    ELSE Ok([i \in 1..Len(ps) |-> ps[Len(ps) + 1 - i]])

\* The end of the input.
Finish(ps) ==
    IF Len(ps) = 0 THEN Err("No rows found to import") ELSE Ok(ps)

----------------------------------------------------------------------------
\* AddForm::try_build_position on the six field values.

try_build_position(f) ==
    LET ticker        == parse_ticker(f[1])
        cost          == parse_f64(f[2], "cost/share")
        qty           == parse_f64(f[3], "quantity")
        sale_price    == parse_f64(f[4], "sale price")
        purchase_date == parse_date(f[5], "purchase date")
        sale_date     == parse_date(f[6], "sale date")
    IN  IF ~ticker.ok THEN Err(ticker.err)
        ELSE IF ~cost.ok THEN Err(cost.err)
        ELSE IF ~qty.ok THEN Err(qty.err)
        ELSE IF ~sale_price.ok THEN Err(sale_price.err)
        ELSE IF ~purchase_date.ok THEN Err(purchase_date.err)
        ELSE IF ~sale_date.ok THEN Err(sale_date.err)
        ELSE IF DateOrderViolated(purchase_date.val, sale_date.val)
        THEN Err("Sale date cannot be before purchase date")
        ELSE Ok(Position(ticker.val, cost.val, qty.val, sale_price.val,
                         purchase_date.val, sale_date.val))

----------------------------------------------------------------------------
\* The rows a statement is made of, as the file holds them (untrimmed).

RowMarker == <<"Taxable G&L Details">>

RowHeader == <<"Symbol", "Cost/Share", "Qty", "Sale Price", "Date", "Date">>

RowAapl == <<"AAPL", "100", "10", "110", "2024-01-01", "2024-02-01">>

RowTickerOnly == <<"AAPL">>

RowMsftPartial == <<" msft ", "100", " ", "110", "2024-01-01", "2024-02-01">>

RowDashJunk == <<"", "abc", "10", "--", "2024-01-01", "2024-02-01">>

RowBadPrice == <<"", "100", "10", "abc", "2024-01-01", "2024-02-01">>

RowBlankComplete == <<"", "$1,000", "2.5", "1,100.50", "01/01/2024", "02/01/2024">>

RowReversed == <<"--", "100", "10", "110", "2024-02-01", "2024-01-01">>

RowTotal == <<"Total", "", "", "", "", "">>

RowSell == <<"Sell 10", "100", "10", "90", "2024-03-05", "2024-03-05">>

RowSubtotal == <<"SubTotal", "abc", "10", "110", "2024-01-01", "2024-02-01">>

Rows ==
    {RowMarker, RowHeader, RowAapl, RowTickerOnly, RowMsftPartial, RowDashJunk,
     RowBadPrice, RowBlankComplete, RowReversed, RowTotal, RowSell, RowSubtotal}

\* The longest file of several sections.
MaxSectionRows == 6

SectionRows == {RowMarker, RowHeader, RowTickerOnly, RowBlankComplete, RowMsftPartial}

\* An invalid cost and the dates the wrong way round.
RowBadCostReversed == <<"--", "abc", "10", "110", "2024-02-01", "2024-01-01">>

\* No field of the five is valid.
RowAllBad == <<"", "abc", "x", "y", "soon", "later">>

\* The numbers are valid, the dates are not.
RowBadDates == <<"", "100", "10", "110", "soon", "2024-13-01">>

RowNegative == <<"msft", "-100", "10", "-110", "2024-01-01", "2024-02-01">>

RowGrandTotal == <<" Grand Total ">>

RowTotalReturn == <<"Total Return", "100", "10", "110", "2024-01-01", "2024-02-01">>

FieldRows ==
    {RowMarker, RowHeader, RowAapl, RowReversed, RowBadCostReversed, RowAllBad,
     RowBadDates, RowNegative, RowGrandTotal, RowTotalReturn}

\* The rows of a file under its marker row and its header row.
Bodies == {<<RowAapl>>, <<RowAapl, RowReversed>>, <<RowTickerOnly, RowBadPrice>>}

\* Header rows of files.
BaseHeaders ==
    {RowHeader,
     <<"Symbol", "Cost/Share", "Qty", "Sale Price", "Date">>,
     <<"Buy Date", "Symbol", "Cost/Share", "Qty", "Sale Price", "Date">>,
     <<"Symbol", "Cost/Share", "Qty", "Date", "Date">>}

\* The values typed into the six fields of the add/edit form.
FormInputs ==
    {" aapl ", "  "} \X {"112.40", "abc", "0", "-3"} \X {"50", "-5", "0"}
        \X {"128.70", "", "0"}
        \X {"2024-03-01", "03/05/2024", "2024-13-01"} \X {"2024-03-01", "2024-02-28"}

----------------------------------------------------------------------------
\* parse_positions_csv as one call: the loop over the records of the file,
\* from the first record (line 1) on, left at the first abort.

NewLocals ==
    [header_idx |-> None, positions |-> <<>>, in_details_section |-> FALSE,
     current_ticker |-> None]

\* A mutation: the line of a record is its 0-based index.
LineNo_ZeroBased(idx) == idx

\* let line_no = idx + 1, idx the 0-based index of the record.
LineNo(idx) == idx + 1

RECURSIVE RunLoop(_, _, _)

\* The end of one iteration: return the error, or go on with the next record.
Iterate(out, file, idx) ==
    IF IsSome(out.abort) THEN Err(Unwrap(out.abort))
    ELSE RunLoop(out.st, file, idx + 1)

RunLoop(st, file, idx) ==
    IF idx >= Len(file) THEN Finish(st.positions)
    ELSE Iterate(ProcessRecord(st, ReadRecord(file[idx + 1]), LineNo(idx)), file, idx)

ParseRows(file) == RunLoop(NewLocals, file, 0)

\* The characters of a path typed into the import form.
PathChars == {"a", "b"}

\* The file system: the rows of the file a path names, None when it cannot
\* be read.
ReadToString(path) ==
    CASE path = "a"  -> Some(<<RowMarker, RowHeader, RowAapl>>)
      [] path = "b"  -> Some(<<RowMarker, RowHeader, RowAapl, RowBadPrice>>)
      [] path = "aa" -> Some(<<RowMarker, RowHeader, RowAapl, RowSell>>)
      [] path = "ab" -> Some(<<RowMarker, RowHeader, RowTotal>>)
      [] path = "ba" -> Some(<<RowMarker, RowHeader, RowTickerOnly, RowReversed>>)
      [] OTHER       -> None

parse_positions_csv(path) ==
    IF ~IsSome(ReadToString(path)) THEN Err("Failed to read " \o path)
    ELSE ParseRows(Unwrap(ReadToString(path)))

----------------------------------------------------------------------------
\* App: the portfolio list, the selection and the import of a file.  app is
\* the record of the fields of App that import_csv reads or writes, with disk
\* for the data file save_positions writes (None: no data file).

App(ps, sel, filter, dsk) ==
    [positions |-> ps, selected |-> sel, filter_text |-> filter, disk |-> dsk]

filter_matches(filter, pos) ==
    \/ filter = ""
    \/ Contains(ToAsciiUppercase(pos.ticker), ToAsciiUppercase(filter))

\* The 0-based indices of the positions the filter shows.
filtered_indices(app) ==
    {i \in 0..(Len(app.positions) - 1) :
        filter_matches(app.filter_text, app.positions[i + 1])}

ensure_selection_visible(app) ==
    IF filtered_indices(app) = {} THEN [app EXCEPT !.selected = 0]
    ELSE IF app.selected \notin filtered_indices(app)
    THEN [app EXCEPT !.selected = MinOf(filtered_indices(app))]
    ELSE app

save_positions(app) == [app EXCEPT !.disk = Some(app.positions)]

\* A mutation: the parsed records are put before the existing ones.
Extend_Prepend(app, new_positions) ==
    LET ps       == new_positions \o app.positions
        extended == [app EXCEPT !.positions = ps,
                                !.selected = IF Len(ps) # 0 THEN Len(ps) - 1 ELSE @]
    IN  save_positions(ensure_selection_visible(extended))

\* What import_csv does with the positions of a parse that succeeded.
Extend(app, new_positions) ==
    LET ps       == app.positions \o new_positions
        extended == [app EXCEPT !.positions = ps,
                                !.selected = IF Len(ps) # 0 THEN Len(ps) - 1 ELSE @]
    IN  save_positions(ensure_selection_visible(extended))

\* A mutation: the list is saved before the parse is known to have succeeded.
import_csv_SaveFirst(app, path) ==
    LET new_positions == parse_positions_csv(path)
    IN  IF ~new_positions.ok
        THEN [app |-> save_positions(app), res |-> Err(new_positions.err)]
        ELSE [app |-> Extend(app, new_positions.val),
              res |-> Ok(Len(new_positions.val))]

\* App::import_csv: the app after the call and what the call returns.
import_csv(app, path) ==
    LET new_positions == parse_positions_csv(path)
    IN  IF ~new_positions.ok THEN [app |-> app, res |-> Err(new_positions.err)]
        ELSE [app |-> Extend(app, new_positions.val),
              res |-> Ok(Len(new_positions.val))]

\* seed_positions, today the current date.
DateMinusDays(dt, n) ==
    CHOOSE r \in [y : {dt.y - 1, dt.y}, m : 1..12, d : 1..31] :
        /\ IsSome(FromYmdOpt(r.y, r.m, r.d))
        /\ DayNumber(r) = DayNumber(dt) - n

seed_positions(today) ==
    <<Position("AAPL", RInt(110), RInt(40), Rat(255, 2), DateMinusDays(today, 12),
               today),
      Position("AMD", RInt(64), RInt(100), Rat(297, 5), DateMinusDays(today, 4),
               today),
      Position("MSFT", Rat(641, 2), RInt(10), Rat(1776, 5),
               DateMinusDays(today, 25), DateMinusDays(today, 5))>>

\* The dates the program is started on.
Todays == {[y |-> 2024, m |-> 3, d |-> 10], [y |-> 2024, m |-> 1, d |-> 3]}

\* The data files the program is started with.
DataFiles ==
    {<<>>,
     <<Position("MSFT", RInt(300), RInt(2), RInt(330),
                [y |-> 2023, m |-> 5, d |-> 1], [y |-> 2023, m |-> 6, d |-> 1])>>}

----------------------------------------------------------------------------
VARIABLES
    rows,                \* the rows of the file read so far, as the file holds them
    trace,               \* where the iteration of each of these rows ended
    header_idx,          \* parse_positions_csv: Option<HeaderIdx>
    positions,           \* parse_positions_csv: the records pushed so far
    in_details_section,  \* parse_positions_csv: a marker row was seen
    current_ticker,      \* parse_positions_csv: Option<String>
    result,              \* what parse_positions_csv returned, None while it runs
    form,                \* the field values of the submitted form
    form_result,         \* what try_build_position returned for them
    calls,               \* the calls of parse_positions_csv made so far
    detail,              \* the figures of the record shown in the detail pane
    app_positions,       \* App.positions
    selected,            \* App.selected
    mode,                \* App.mode
    filter_text,         \* App.filter_text
    import_path,         \* App.import_form.path
    import_error,        \* App.import_form.error
    import_message,      \* App.import_form.message
    disk,                \* the positions in the data file, None when there is none
    key,                 \* the key the import form or the filter handled last, else ""
    parts,               \* detect_header: the cells of the row it is called on
    detected,            \* what detect_header returned for them
    body,                \* the rows of a file under the marker row and parts
    parsed,              \* the result of parsing that file
    editing,             \* App.editing: Option<usize>
    filter_editing,      \* App.filter_editing
    fields,              \* App.form.fields: the six values
    active,              \* App.form.active
    form_error,          \* App.form.error
    run_app              \* run_app: "running", "returned" or "panicked"

parser_vars ==
    <<rows, trace, header_idx, positions, in_details_section, current_ticker,
      result, form, form_result, calls, detail>>

app_vars ==
    <<app_positions, selected, mode, filter_text, import_path, import_error,
      import_message, disk, key>>

header_vars == <<parts, detected, body, parsed>>

\* The add/edit form, the two editing flags and the event loop.
form_vars == <<editing, filter_editing, fields, active, form_error, run_app>>

vars == <<parser_vars, app_vars, header_vars, form_vars>>

\* The loop's locals as one record.
Locals ==
    [header_idx |-> header_idx, positions |-> positions,
     in_details_section |-> in_details_section, current_ticker |-> current_ticker]

\* parse_positions_csv is entered, no form is submitted.
NoCall ==
    /\ rows = <<>>
    /\ trace = <<>>
    /\ header_idx = None
    /\ positions = <<>>
    /\ in_details_section = FALSE
    /\ current_ticker = None
    /\ result = None
    /\ form = None
    /\ form_result = None
    /\ calls = <<>>
    /\ detail = None

\* AddForm::new, editing: None, filter_editing: false, and the loop entered.
NewForm ==
    /\ editing = None
    /\ filter_editing = FALSE
    /\ fields = <<"", "", "", "", "", "">>
    /\ active = 0
    /\ form_error = None
    /\ run_app = "running"

\* No application is running.
NoApp ==
    /\ app_positions = <<>>
    /\ selected = 0
    /\ mode = "Portfolio"
    /\ filter_text = ""
    /\ import_path = ""
    /\ import_error = None
    /\ import_message = None
    /\ disk = None
    /\ key = ""
    /\ NewForm

\* No header row is under test.
NoHeader ==
    /\ parts = <<>>
    /\ detected = None
    /\ body = None
    /\ parsed = None

Init == NoCall /\ NoApp /\ NoHeader

\* The reader yields the next row, one of the rows S of a file of at most max
\* rows, and the loop body runs on it.
ReadRowOf(S, max) ==
    /\ result = None
    /\ form = None
    /\ Len(rows) < max
    /\ \E raw \in S :
         \E out \in {ProcessRecord(Locals, ReadRecord(raw), LineNo(Len(rows)))} :
             /\ rows' = Append(rows, raw)
             /\ trace' = Append(trace, out.at)
             /\ header_idx' = out.st.header_idx
             /\ positions' = out.st.positions
             /\ in_details_section' = out.st.in_details_section
             /\ current_ticker' = out.st.current_ticker
             /\ result' = IF IsSome(out.abort) THEN Some(Err(Unwrap(out.abort)))
                          ELSE None
    /\ UNCHANGED <<form, form_result, calls, detail, app_vars, header_vars, form_vars>>

ReadRow == ReadRowOf(Rows, MaxRows)

\* The reader is exhausted: the call returns.
EndOfInput ==
    /\ result = None
    /\ form = None
    /\ result' = Some(Finish(positions))
    /\ UNCHANGED <<rows, trace, header_idx, positions, in_details_section,
                   current_ticker, form, form_result, calls, detail, app_vars,
                   header_vars, form_vars>>

\* Enter on the last field of the add/edit form.
SubmitForm ==
    /\ result = None
    /\ form = None
    /\ rows = <<>>
    /\ \E f \in FormInputs :
         /\ form' = Some(f)
         /\ form_result' = Some(try_build_position(f))
    /\ UNCHANGED <<rows, trace, header_idx, positions, in_details_section,
                   current_ticker, result, calls, detail, app_vars, header_vars, form_vars>>

\* The records a call or a form has handed to the application.
Viewable ==
    (IF IsSome(result) /\ Unwrap(result).ok
     THEN {Unwrap(result).val[i] : i \in 1..Len(Unwrap(result).val)}
     ELSE {})
    \cup
    (IF IsSome(form_result) /\ Unwrap(form_result).ok
     THEN {Unwrap(form_result).val}
     ELSE {})

\* One of these records is selected and the detail pane is drawn.
ViewDetail ==
    /\ detail = None
    /\ \E p \in Viewable : detail' = Some(Detail(p))
    /\ UNCHANGED <<rows, trace, header_idx, positions, in_details_section,
                   current_ticker, result, form, form_result, calls, app_vars,
                   header_vars, form_vars>>

Next == ReadRow \/ EndOfInput \/ SubmitForm \/ ViewDetail

Spec == Init /\ [][Next]_vars

\* Files of several sections: the rows are few and the files longer.
ReadSectionRow == ReadRowOf(SectionRows, MaxSectionRows)

NextSections == ReadSectionRow \/ EndOfInput

SpecSections == Init /\ [][NextSections]_vars

\* Files whose data rows have bad, negative or total-like cells.
ReadFieldRow == ReadRowOf(FieldRows, MaxRows)

NextFields == ReadFieldRow \/ EndOfInput

SpecFields == Init /\ [][NextFields]_vars

----------------------------------------------------------------------------
\* The application: started, then driven by the keys of the import form.

TheApp == App(app_positions, selected, filter_text, disk)

\* App::new: the positions of the data file, or the seed when there is none.
AppNew ==
    /\ \/ /\ disk = None
          /\ \E today \in Todays : app_positions = seed_positions(today)
       \/ \E ps \in DataFiles : disk = Some(ps) /\ app_positions = ps
    /\ selected = IF Len(app_positions) = 0 THEN 0 ELSE Len(app_positions) - 1
    /\ mode = "Portfolio"
    /\ filter_text = ""
    /\ import_path = ""
    /\ import_error = None
    /\ import_message = None
    /\ key = ""
    /\ NewForm

InitApp == NoCall /\ AppNew /\ NoHeader

\* A mutation: the handlers of the modes are reached while the filter is
\* being edited, too.
Handling_WhileFiltering(ms) == run_app = "running" /\ mode \in ms

\* A key event reaches the handlers of the modes ms: the loop runs and the
\* filter is not being edited.
Handling(ms) == run_app = "running" /\ ~filter_editing /\ mode \in ms

\* Mode::Portfolio and Mode::Detail, KeyCode::Char('i').
KeyImport ==
    /\ Handling({"Portfolio", "Detail"})
    /\ mode' = "Import"
    /\ import_path' = ""
    /\ import_error' = None
    /\ import_message' = None
    /\ key' = "i"
    /\ UNCHANGED <<app_positions, selected, filter_text, disk>>
    /\ UNCHANGED <<parser_vars, header_vars, form_vars>>

\* Mode::Import, KeyCode::Esc.
ImportEsc ==
    /\ Handling({"Import"})
    /\ mode' = "Portfolio"
    /\ import_path' = ""
    /\ import_error' = None
    /\ import_message' = None
    /\ key' = "Esc"
    /\ UNCHANGED <<app_positions, selected, filter_text, disk>>
    /\ UNCHANGED <<parser_vars, header_vars, form_vars>>

\* Mode::Import, KeyCode::Char(c).
ImportChar ==
    /\ Handling({"Import"})
    /\ Len(import_path) < MaxPath
    /\ \E c \in PathChars : import_path' = import_path \o c
    /\ key' = "Char"
    /\ UNCHANGED <<app_positions, selected, mode, filter_text, import_error,
                   import_message, disk>>
    /\ UNCHANGED <<parser_vars, header_vars, form_vars>>

\* Mode::Import, KeyCode::Backspace.
ImportBackspace ==
    /\ Handling({"Import"})
    /\ import_path' = IF import_path = "" THEN ""
                      ELSE SubSeq(import_path, 1, Len(import_path) - 1)
    /\ key' = "Backspace"
    /\ UNCHANGED <<app_positions, selected, mode, filter_text, import_error,
                   import_message, disk>>
    /\ UNCHANGED <<parser_vars, header_vars, form_vars>>

\* Mode::Import, KeyCode::Enter.
ImportEnter ==
    /\ Handling({"Import"})
    /\ Len(app_positions) < MaxPortfolio
    /\ key' = "Enter"
    /\ UNCHANGED <<import_path, filter_text>>
    /\ UNCHANGED <<parser_vars, header_vars, form_vars>>
    /\ IF Trim(import_path) = ""
       THEN /\ import_error' = Some("Path cannot be empty")
            /\ UNCHANGED <<app_positions, selected, mode, import_message, disk>>
       ELSE \E out \in {import_csv(TheApp, Trim(import_path))} :
                /\ app_positions' = out.app.positions
                /\ selected' = out.app.selected
                /\ disk' = out.app.disk
                /\ IF out.res.ok
                   THEN /\ import_message' =
                              Some("Imported " \o ToString(out.res.val) \o " positions")
                        /\ import_error' = None
                        /\ mode' = "Portfolio"
                   ELSE /\ import_error' = Some(out.res.err)
                        /\ import_message' = None
                        /\ mode' = "Import"

NextApp == KeyImport \/ ImportEsc \/ ImportChar \/ ImportBackspace \/ ImportEnter

SpecApp == InitApp /\ [][NextApp]_vars

----------------------------------------------------------------------------
\* Vocabulary of the properties below.

\* The call has returned.
Returned == result # None

Outcome == Unwrap(result)

\* The error of a parse that found nothing to import.
EmptyResult == Err("No rows found to import")

\* The row read last, as the reader yields it.
LastFields == ReadRecord(rows[Len(rows)])

\* Row k of the file is a section-marker row.
MarkerAt(k) == IsSectionMarker(ReadRecord(rows[k]))

\* Row k of the file reads as a header.
HeaderAt(k) == IsSome(detect_header(ReadRecord(rows[k])))

\* The rows of the file that pushed a record.
EmitRows == {k \in 1..Len(trace) : trace[k] = "emit"}

----------------------------------------------------------------------------
\* C1.  Scenario A: the file of exactly the two rows
\* Symbol,Cost/Share,Qty,Sale Price,Date,Date and
\* AAPL,100,10,110,2024-01-01,2024-02-01 parses to one record, ticker AAPL,
\* with invested 1000, proceeds 1100, profit 100, return 0.10 and 31 days held.
ScenarioA == <<RowHeader, RowAapl>>

C1_ScenarioA ==
    (rows = ScenarioA /\ Returned) =>
        /\ Outcome.ok
        /\ Len(Outcome.val) = 1
        /\ Outcome.val[1].ticker = "AAPL"
        /\ invested(Outcome.val[1]) = RInt(1000)
        /\ proceeds(Outcome.val[1]) = RInt(1100)
        /\ roi_value(Outcome.val[1]) = RInt(100)
        /\ roi_pct(Outcome.val[1]) = Rat(1, 10)
        /\ days_held(Outcome.val[1]) = 31

----------------------------------------------------------------------------
\* C2.  Fallback mode: in a file none of whose rows reads as a header, every
\* row of six or more columns whose cost, quantity, sale price and two dates
\* (columns 1..5) are present and valid yields a record; shorter rows are
\* skipped.
PositionalComplete(raw) ==
    LET f == ReadRecord(raw)
    IN  /\ Len(f) >= 6
        /\ ~AnyRequiredMissing(f, PositionalIdx)
        /\ IsSome(parse_number(f[2]))
        /\ IsSome(parse_number(f[3]))
        /\ IsSome(parse_number(f[4]))
        /\ IsSome(parse_date_any(f[5]))
        /\ IsSome(parse_date_any(f[6]))
        /\ ~DateLess(Unwrap(parse_date_any(f[6])), Unwrap(parse_date_any(f[5])))

PositionalAbsent(raw) ==
    Len(raw) < 6 \/ AnyRequiredMissing(ReadRecord(raw), PositionalIdx)

CompleteRows == {k \in 1..Len(rows) : PositionalComplete(rows[k])}

C2_FallbackPositional ==
    ( /\ Returned
      /\ \A k \in 1..Len(rows) :
            /\ ~HeaderAt(k)
            /\ PositionalComplete(rows[k]) \/ PositionalAbsent(rows[k])
      /\ CompleteRows # {} )
    => /\ Outcome.ok
       /\ Len(Outcome.val) = Cardinality(CompleteRows)

----------------------------------------------------------------------------
\* C3.  Every row before the first section-marker row is skipped: it pushes no
\* record, is not adopted as a header and sets no ticker context; and a record
\* only comes from a row that follows a marker row and a header row read after
\* that marker.
C3_FrontMatterSkipped ==
    /\ (\A k \in 1..Len(rows) : ~MarkerAt(k)) =>
           /\ positions = <<>>
           /\ header_idx = None
           /\ current_ticker = None
           /\ Returned => Outcome = EmptyResult
    /\ Len(positions) = Cardinality(EmitRows)
    /\ \A k \in EmitRows :
           \E m \in 1..Len(rows), h \in 1..Len(rows) :
               m < h /\ h < k /\ MarkerAt(m) /\ HeaderAt(h)

\* Front matter that holds a header row and a complete data row was skipped.
C3_Witness ==
    /\ rows = <<RowHeader, RowAapl, RowTickerOnly>>
    /\ trace = <<"front", "front", "front">>
    /\ result = None

----------------------------------------------------------------------------
\* C4.  The call never returns success with an empty list: at the end of the
\* input with no record pushed (a file holding only a Total,,,,, row, say) it
\* returns the error "No rows found to import", which names no line.
C4_NeverEmptySuccess ==
    /\ (Returned /\ Outcome.ok) => Len(Outcome.val) >= 1
    /\ (Returned /\ positions = <<>> /\ (trace = <<>> \/ trace[Len(trace)] # "abort"))
           => /\ Outcome = EmptyResult
              /\ ~StartsWith(Outcome.err, "Line ")
    /\ (Returned /\ rows = <<RowTotal>>) => Outcome = EmptyResult

\* The file of the single row Total,,,,, was refused.
C4_Witness == rows = <<RowTotal>> /\ Returned /\ Outcome = EmptyResult

----------------------------------------------------------------------------
\* Vocabulary of the properties of one step of the loop.

\* The loop reads one more row.
StepRow == result = None /\ Len(rows') = Len(rows) + 1

\* The row this step reads, as the file holds it and as the reader yields it.
NewRaw == rows'[Len(rows')]

NewFields == ReadRecord(NewRaw)

\* The step reads a row under an active header; the row is neither a marker
\* row nor a summary line.
ActiveHeaderRow ==
    /\ StepRow
    /\ IsSome(header_idx)
    /\ ~IsSectionMarker(NewFields)
    /\ ~IsSummaryLine(NewFields)

\* The cell of the new row in 0-based column i, as the file holds it.
RawCell(i) == IF i < Len(NewRaw) THEN NewRaw[i + 1] ELSE ""

\* The columns of the five required fields under the active header.
FiveCols ==
    {Unwrap(header_idx).cost, Unwrap(header_idx).qty, Unwrap(header_idx).sale_price,
     Unwrap(header_idx).buy_date, Unwrap(header_idx).sale_date}

\* A missing cell: empty, whitespace-only, or the sentinel.
CellMissing(c) ==
    c = "" \/ (\A i \in 1..Len(c) : IsWhitespace(Ch(c, i))) \/ c = "--"

\* A present cell: not empty and not the sentinel, once trimmed.
CellPresent(c) == Trim(c) # "" /\ Trim(c) # "--"

NewAnyMissing == \E i \in FiveCols : CellMissing(RawCell(i))

NewAllPresent == \A i \in FiveCols : CellPresent(RawCell(i))

NewCost == parse_number(RawCell(Unwrap(header_idx).cost))

NewQty == parse_number(RawCell(Unwrap(header_idx).qty))

NewSalePrice == parse_number(RawCell(Unwrap(header_idx).sale_price))

NewPurchaseDate == parse_date_any(RawCell(Unwrap(header_idx).buy_date))

NewSaleDate == parse_date_any(RawCell(Unwrap(header_idx).sale_date))

NewAllValid ==
    /\ IsSome(NewCost)
    /\ IsSome(NewQty)
    /\ IsSome(NewSalePrice)
    /\ IsSome(NewPurchaseDate)
    /\ IsSome(NewSaleDate)

\* The ticker cell of the new row, trimmed.
NewTickerCell == Trim(RawCell(Unwrap(header_idx).ticker))

\* A ticker cell that names a ticker: not empty, not "--", not starting with
\* "sell" in any case.
NamesTicker(c) ==
    c # "" /\ c # "--" /\ ~StartsWith(ToAsciiLowercase(c), "sell")

\* A ticker is known for the new row: remembered, or named by the row itself.
NewHasContext == IsSome(current_ticker) \/ NamesTicker(NewTickerCell)

\* The error of row n with the reason e.
LineError(n, e) == Err("Line " \o ToString(n) \o ": " \o e)

LastPosition == positions'[Len(positions')]

Pushed == Len(positions') = Len(positions) + 1

----------------------------------------------------------------------------
\* C5.  Every record built by the parser or by the add/edit form has
\* sale_date >= purchase_date, equal dates allowed.  A row that would yield a
\* record but whose sale date precedes its purchase date aborts the call with
\* "Line <n>: sale date cannot be before purchase date"; the form returns an
\* error for such dates; the dates are taken as written, never swapped.
RecordOrdered(p) == ~DateLess(p.sale_date, p.purchase_date)

FormPurchaseDate == parse_date_any(Unwrap(form)[5])

FormSaleDate == parse_date_any(Unwrap(form)[6])

FormOthersValid ==
    /\ Trim(Unwrap(form)[1]) # ""
    /\ IsSome(parse_number(Unwrap(form)[2]))
    /\ IsSome(parse_number(Unwrap(form)[3]))
    /\ IsSome(parse_number(Unwrap(form)[4]))

C5_RecordsOrdered ==
    /\ \A k \in 1..Len(positions) : RecordOrdered(positions[k])
    /\ (Returned /\ Outcome.ok) =>
           \A k \in 1..Len(Outcome.val) : RecordOrdered(Outcome.val[k])
    /\ form # None =>
           /\ Unwrap(form_result).ok =>
                  /\ RecordOrdered(Unwrap(form_result).val)
                  /\ Unwrap(form_result).val.purchase_date = Unwrap(FormPurchaseDate)
                  /\ Unwrap(form_result).val.sale_date = Unwrap(FormSaleDate)
           /\ (IsSome(FormPurchaseDate) /\ IsSome(FormSaleDate) /\ FormOthersValid) =>
                  IF DateLess(Unwrap(FormSaleDate), Unwrap(FormPurchaseDate))
                  THEN Unwrap(form_result) = Err("Sale date cannot be before purchase date")
                  ELSE Unwrap(form_result).ok

C5_StepOrdered ==
    (ActiveHeaderRow /\ NewAllPresent /\ NewAllValid /\ NewHasContext) =>
        IF DateLess(Unwrap(NewSaleDate), Unwrap(NewPurchaseDate))
        THEN /\ positions' = positions
             /\ result' = Some(LineError(Len(rows'),
                                         "sale date cannot be before purchase date"))
        ELSE /\ Pushed
             /\ LastPosition.purchase_date = Unwrap(NewPurchaseDate)
             /\ LastPosition.sale_date = Unwrap(NewSaleDate)
             /\ result' = None

----------------------------------------------------------------------------
\* C6.  Under an active header a row with any of the five required fields
\* missing (empty, whitespace-only or "--") is skipped silently: no record, no
\* error whatever its other fields hold, and the parse goes on.
C6_StepMissing ==
    (StepRow /\ IsSome(header_idx) /\ NewAnyMissing) =>
        /\ positions' = positions
        /\ result' = None

C6_MissingFieldSkipped == [][C6_StepMissing]_vars

\* A row with "--" for a sale price and unparsable text for a cost was skipped
\* under a header and a ticker.
C6_Witness ==
    /\ rows = <<RowMarker, RowHeader, RowTickerOnly, RowDashJunk>>
    /\ trace[4] = "partial"
    /\ positions = <<>>
    /\ result = None

----------------------------------------------------------------------------
\* C7.  Under an active header a row whose five required fields are all
\* present and of which at least one is no valid number or date aborts the
\* call with "Line <n>: Invalid <field label>..." and no records.
C7_AbortsInvalid ==
    /\ result' # None
    /\ ~Unwrap(result').ok
    /\ Unwrap(result').val = None
    /\ StartsWith(Unwrap(result').err,
                  "Line " \o ToString(Len(rows')) \o ": Invalid ")

\* As claimed: for every such row.
C7_StepInvalidAlways ==
    (ActiveHeaderRow /\ NewAllPresent /\ ~NewAllValid) => C7_AbortsInvalid

C7_InvalidFieldAborts == [][C7_StepInvalidAlways]_vars

\* As amended: for every such row for which a ticker is known.
C7_StepInvalidWithTicker ==
    (ActiveHeaderRow /\ NewAllPresent /\ ~NewAllValid /\ NewHasContext)
        => C7_AbortsInvalid

C7_InvalidFieldAbortsWithTicker == [][C7_StepInvalidWithTicker]_vars

\* A row with the sale price "abc" aborted the call after a record was pushed.
C7_Witness ==
    /\ rows = <<RowMarker, RowHeader, RowAapl, RowBadPrice>>
    /\ result = Some(LineError(4, "Invalid sale price"))
    /\ Len(positions) = 1

----------------------------------------------------------------------------
\* C8.  Ticker carry-forward: a row read under the active header whose ticker
\* cell names a ticker sets the context to that ticker, upper-cased, even when
\* its numeric fields are missing; no other row changes the context; a record
\* pushed from a row whose ticker cell is empty, "--" or starts with "sell"
\* carries the context.  A ticker-only row AAPL followed by a complete row
\* with an empty ticker yields exactly one record, ticker AAPL.
ScenarioB == <<RowMarker, RowHeader, RowTickerOnly, RowBlankComplete>>

C8_StepContext ==
    StepRow =>
        /\ IF ActiveHeaderRow /\ NamesTicker(NewTickerCell)
           THEN current_ticker' = Some(ToAsciiUppercase(NewTickerCell))
           ELSE current_ticker' = current_ticker
        /\ (Pushed /\ ~NamesTicker(NewTickerCell)) =>
               /\ IsSome(current_ticker)
               /\ LastPosition.ticker = Unwrap(current_ticker)

C8_ScenarioB ==
    rows = ScenarioB => Len(positions) = 1 /\ positions[1].ticker = "AAPL"

C8_TickerCarriedForward == [](C8_ScenarioB) /\ [][C8_StepContext]_vars

\* Scenario B was read and gave its one record.
C8_Witness ==
    /\ rows = ScenarioB
    /\ trace = <<"marker", "header", "partial", "emit">>
    /\ Len(positions) = 1
    /\ positions[1].ticker = "AAPL"

----------------------------------------------------------------------------
\* C9.  Under an active header a row with all five required fields present,
\* read while no ticker context is set and whose own ticker cell sets none, is
\* skipped: no record, no error, and the parse goes on.
C9_StepNoContext ==
    (ActiveHeaderRow /\ NewAllPresent /\ current_ticker = None
        /\ ~NamesTicker(NewTickerCell))
    => /\ positions' = positions
       /\ result' = None
       /\ current_ticker' = None

C9_NoContextSkipped == [][C9_StepNoContext]_vars

\* A complete row with an empty ticker was skipped right after the header.
C9_Witness ==
    /\ rows = <<RowMarker, RowHeader, RowBlankComplete>>
    /\ trace[3] = "nocontext"
    /\ positions = <<>>
    /\ result = None

----------------------------------------------------------------------------
\* C10.  Under an active header a row whose ticker cell names a ticker and whose
\* five required fields are present and valid both replaces the context and
\* pushes one record, and the record carries the row's own ticker; a record
\* always carries the context as it stands after its row.
C10_StepBoth ==
    /\ ( /\ ActiveHeaderRow
         /\ NamesTicker(NewTickerCell)
         /\ NewAllPresent
         /\ NewAllValid
         /\ ~DateLess(Unwrap(NewSaleDate), Unwrap(NewPurchaseDate)) )
       => /\ current_ticker' = Some(ToAsciiUppercase(NewTickerCell))
          /\ positions' =
                 Append(positions,
                        Position(ToAsciiUppercase(NewTickerCell), Unwrap(NewCost),
                                 Unwrap(NewQty), Unwrap(NewSalePrice),
                                 Unwrap(NewPurchaseDate), Unwrap(NewSaleDate)))
          /\ result' = None
    /\ (StepRow /\ Pushed) => Some(LastPosition.ticker) = current_ticker'

C10_ContextAndRecord == [][C10_StepBoth]_vars

\* A complete AAPL row read while the context was MSFT gave an AAPL record.
C10_Witness ==
    /\ rows = <<RowMarker, RowHeader, RowMsftPartial, RowAapl>>
    /\ current_ticker = Some("AAPL")
    /\ Len(positions) = 1
    /\ positions[1].ticker = "AAPL"

----------------------------------------------------------------------------
\* The header detector on the rows of up to MaxCols cells of HeaderCells, and
\* the parse of a file whose header row is such a row.

InitHeader == NoCall /\ NoApp /\ NoHeader

\* One more cell of the row.
AddCell ==
    /\ detected = None
    /\ Len(parts) < MaxCols
    /\ \E c \in HeaderCells : parts' = Append(parts, c)
    /\ UNCHANGED <<detected, body, parsed, parser_vars, app_vars, form_vars>>

\* detect_header is called on the row.
DetectHeader ==
    /\ detected = None
    /\ detected' = Some(detect_header(ReadRecord(parts)))
    /\ UNCHANGED <<parts, body, parsed, parser_vars, app_vars, form_vars>>

\* parse_positions_csv on the file of a marker row, the row and a body, the
\* row being a header.
ParseUnder ==
    /\ detected # None
    /\ IsSome(Unwrap(detected))
    /\ body = None
    /\ \E b \in Bodies :
         /\ body' = Some(b)
         /\ parsed' = Some(ParseRows(<<RowMarker, parts>> \o b))
    /\ UNCHANGED <<parts, detected, parser_vars, app_vars, form_vars>>

NextHeader == AddCell \/ DetectHeader \/ ParseUnder

SpecHeader == InitHeader /\ [][NextHeader]_vars

----------------------------------------------------------------------------
\* A file of a marker row, a header row and a body is parsed, one cell of its
\* header row is written in another spelling of the same role, and the file is
\* parsed again.

InitSynonym ==
    /\ NoCall
    /\ NoApp
    /\ parts \in BaseHeaders
    /\ body \in {Some(b) : b \in Bodies}
    /\ detected = None
    /\ parsed = None

ParseFile ==
    /\ detected' = Some(detect_header(ReadRecord(parts)))
    /\ parsed' = Some(ParseRows(<<RowMarker, parts>> \o Unwrap(body)))
    /\ UNCHANGED <<parts, body, parser_vars, app_vars, form_vars>>

Respell ==
    /\ parsed # None
    /\ \E i \in 1..Len(parts) :
         \E S \in Spellings :
             /\ parts[i] \in S
             /\ \E s \in S :
                  /\ parts' = [parts EXCEPT ![i] = s]
                  /\ detected' = Some(detect_header(ReadRecord(parts')))
                  /\ parsed' = Some(ParseRows(<<RowMarker, parts'>> \o Unwrap(body)))
    /\ UNCHANGED <<body, parser_vars, app_vars, form_vars>>

NextSynonym == ParseFile \/ Respell

SpecSynonym == InitSynonym /\ [][NextSynonym]_vars

----------------------------------------------------------------------------
\* Vocabulary of the properties of the application.

\* The path the import form holds, as Enter reads it.
TypedPath == Trim(import_path)

\* The parse of the file the typed path names.
TypedParse == parse_positions_csv(TypedPath)

\* The step handles Enter in the import form, a path typed.
StepImport == mode = "Import" /\ key' = "Enter" /\ TypedPath # ""

\* The rows of file before its row n gave at least one record.
RecordsBefore(file, n) ==
    \E k \in 1..(n - 1) : ParseRows(SubSeq(file, 1, k)).ok

----------------------------------------------------------------------------
\* C11.  The import is all-or-nothing.  When the parse of the imported file
\* fails, whether a row aborted it after earlier rows gave records, the file
\* could not be read or no row was found, the call returns the error alone
\* (no records); App::import_csv leaves the portfolio list and the selected
\* index as they were and saves nothing; the import form shows the error.
C11_StepFailedImport ==
    (StepImport /\ ~TypedParse.ok) =>
        /\ TypedParse.val = None
        /\ app_positions' = app_positions
        /\ selected' = selected
        /\ disk' = disk
        /\ import_error' = Some(TypedParse.err)
        /\ import_message' = None

C11_AllOrNothing == [][C11_StepFailedImport]_vars

\* The import of the file b, whose row 4 aborts after row 3 gave a record,
\* into the seed portfolio, which was never saved.
C11_Witness ==
    /\ key = "Enter"
    /\ import_path = "b"
    /\ RecordsBefore(Unwrap(ReadToString("b")), 4)
    /\ import_error = Some("Line 4: Invalid sale price")
    /\ Len(app_positions) = 3
    /\ selected = 2
    /\ disk = None

----------------------------------------------------------------------------
\* C12.  A row with a cell that contains the phrase `taxable g&l details`, in
\* any case, discards the active header and is neither header nor data: it
\* sets no header, pushes no record, leaves the ticker context and raises no
\* error.  After it, while no row has been recognised as a header, no row
\* pushes a record or changes the ticker context: every row that pushed a
\* record follows a row adopted as header with no marker row in between.
CellHasMarker(raw) ==
    \E i \in 1..Len(raw) : Contains(ToAsciiLowercase(raw[i]), "taxable g&l details")

C12_StepMarker ==
    (StepRow /\ CellHasMarker(NewRaw)) =>
        /\ header_idx' = None
        /\ in_details_section'
        /\ positions' = positions
        /\ current_ticker' = current_ticker
        /\ result' = None

C12_StepSeeking ==
    (StepRow /\ header_idx = None) =>
        /\ positions' = positions
        /\ current_ticker' = current_ticker
        /\ result' = None

C12_HeaderSinceMarker ==
    \A k \in EmitRows :
        \E h \in 1..(k - 1) :
            /\ trace[h] = "header"
            /\ \A i \in (h + 1)..k : ~CellHasMarker(rows[i])

C12_MarkerResetsHeader ==
    /\ []C12_HeaderSinceMarker
    /\ [][C12_StepMarker /\ C12_StepSeeking]_vars

\* A second marker row discarded the header: the complete row after it was
\* passed over.
C12_Witness ==
    /\ rows = <<RowMarker, RowHeader, RowMarker, RowAapl>>
    /\ trace = <<"marker", "header", "marker", "noise">>
    /\ header_idx = None
    /\ positions = <<>>
    /\ current_ticker = None

----------------------------------------------------------------------------
\* C13.  The row adopted as header is not read as data: the step that adopts
\* it pushes no record, leaves current_ticker and raises no error.  While no
\* header is active, a row that reaches the header detection (it is not a
\* marker row) and is not recognised as a header changes nothing of the
\* parser's state and raises no error, even when it holds complete data.
C13_StepAdopt ==
    (StepRow /\ header_idx = None /\ header_idx' # None) =>
        /\ header_idx' = detect_header(NewFields)
        /\ positions' = positions
        /\ current_ticker' = current_ticker
        /\ in_details_section' = in_details_section
        /\ result' = None

C13_StepNotHeader ==
    (/\ StepRow
     /\ header_idx = None
     /\ ~IsSectionMarker(NewFields)
     /\ ~IsSome(detect_header(NewFields))) =>
        /\ UNCHANGED <<header_idx, positions, in_details_section, current_ticker>>
        /\ result' = None

C13_HeaderRowNotData == [][C13_StepAdopt /\ C13_StepNotHeader]_vars

\* With no header active the complete AAPL row was passed over; the header
\* row after it was adopted and gave neither a record nor a ticker.
C13_Witness ==
    /\ rows = <<RowMarker, RowAapl, RowHeader>>
    /\ trace = <<"marker", "noise", "header">>
    /\ PositionalComplete(RowAapl)
    /\ header_idx = detect_header(RowHeader)
    /\ header_idx # None
    /\ positions = <<>>
    /\ current_ticker = None
    /\ result = None

----------------------------------------------------------------------------
\* Vocabulary of the properties of the header detector.

\* detect_header was called on parts; what it returned.
Detected == detected # None

Reported == Unwrap(detected)

\* The text a cell of the row is matched by.
Sanitized(i) == sanitize_header(Trim(parts[i + 1]))

\* The 0-based columns of the row whose text is one of names, and the k-th of
\* them in column order.
RoleCols(names) == {i \in 0..(Len(parts) - 1) : Sanitized(i) \in names}

Has(names) == RoleCols(names) # {}

Nth(S, k) == CHOOSE x \in S : Cardinality({y \in S : y < x}) = k - 1

----------------------------------------------------------------------------
\* C14.  detect_header reports a header only if all six roles resolve: each
\* column it reports is a column of the row holding a name of its role.  A
\* row with no name of the ticker, the cost, the quantity or the sale price is
\* not a header; a row with no generic date column (date, saledate, selldate)
\* is not a header, even when it has an explicit purchase-date column.
C14_Resolved(h) ==
    /\ h.ticker \in RoleCols(TickerNames)
    /\ h.cost \in RoleCols(CostNames)
    /\ h.qty \in RoleCols(QtyNames)
    /\ h.sale_price \in RoleCols(SaleNames)
    /\ h.buy_date \in RoleCols(BuyDateNames) \cup RoleCols(DateNames)
    /\ h.sale_date \in RoleCols(DateNames)

C14_AllSixRoles ==
    Detected =>
        /\ IsSome(Reported) => C14_Resolved(Unwrap(Reported))
        /\ ~Has(TickerNames) => Reported = None
        /\ ~Has(CostNames) => Reported = None
        /\ ~Has(QtyNames) => Reported = None
        /\ ~Has(SaleNames) => Reported = None
        /\ ~Has(DateNames) => Reported = None

\* The row with an explicit purchase-date column and no generic date column
\* was not reported as a header.
C14_Witness ==
    /\ parts = <<"Symbol", "Cost/Share", "Qty", "Sale Price", "Buy Date">>
    /\ Detected
    /\ Reported = None

----------------------------------------------------------------------------
\* C15.  The date roles of a reported header.  The purchase date is an
\* explicit purchase-date column (dateadded, purchasedate, buydate) when the
\* row has one, the first generic date column otherwise.  The sale date is
\* the second generic date column (date, saledate, selldate, in column order)
\* when the row has two or more, the first one otherwise, which then may
\* serve both roles.
C15_DateRoles ==
    (Detected /\ IsSome(Reported)) =>
        LET h       == Unwrap(Reported)
            generic == RoleCols(DateNames)
        IN  /\ h.buy_date \in IF Has(BuyDateNames) THEN RoleCols(BuyDateNames)
                              ELSE {Nth(generic, 1)}
            /\ h.sale_date = IF Cardinality(generic) >= 2 THEN Nth(generic, 2)
                             ELSE Nth(generic, 1)

\* Two generic date columns, not adjacent, and no explicit purchase-date
\* column: the first is the purchase date, the second the sale date.
C15_Witness ==
    /\ parts = <<"Symbol", "Date", "Cost/Share", "Qty", "Sale Price", "Date">>
    /\ Detected
    /\ Reported = Some(HeaderIdx(0, 2, 3, 4, 1, 5))

----------------------------------------------------------------------------
\* C16.  A header with exactly one generic date column and no explicit
\* purchase-date column: that column is both the purchase-date and the
\* sale-date column; every record of a file parsed under it has purchase_date
\* equal to sale_date and days_held 1; and the parse of such a file never
\* ends in the date-order error.
SingleDate == Cardinality(RoleCols(DateNames)) = 1 /\ ~Has(BuyDateNames)

\* The file that was parsed.
ParsedFile == <<RowMarker, parts>> \o Unwrap(body)

DateOrderErrors ==
    {LineError(n, "sale date cannot be before purchase date") :
        n \in 1..Len(ParsedFile)}

C16_SingleDateColumn ==
    (Detected /\ IsSome(Reported) /\ SingleDate) =>
        /\ Unwrap(Reported).buy_date = Nth(RoleCols(DateNames), 1)
        /\ Unwrap(Reported).sale_date = Nth(RoleCols(DateNames), 1)
        /\ parsed # None =>
               /\ Unwrap(parsed) \notin DateOrderErrors
               /\ Unwrap(parsed).ok =>
                      \A i \in 1..Len(Unwrap(parsed).val) :
                          /\ Unwrap(parsed).val[i].purchase_date =
                                 Unwrap(parsed).val[i].sale_date
                          /\ days_held(Unwrap(parsed).val[i]) = 1

\* Under Symbol, Cost/Share, Qty, Sale Price, Date the AAPL row and the row
\* whose sixth cell is an earlier date both gave a record dated by the fifth
\* cell alone.
C16_Witness ==
    /\ parts = <<"Symbol", "Cost/Share", "Qty", "Sale Price", "Date">>
    /\ SingleDate
    /\ body = Some(<<RowAapl, RowReversed>>)
    /\ parsed # None
    /\ Unwrap(parsed).ok
    /\ Len(Unwrap(parsed).val) = 2
    /\ Unwrap(parsed).val[2].purchase_date = [y |-> 2024, m |-> 2, d |-> 1]
    /\ Unwrap(parsed).val[2].sale_date = [y |-> 2024, m |-> 2, d |-> 1]
    /\ days_held(Unwrap(parsed).val[2]) = 1

----------------------------------------------------------------------------
\* C17.  Header synonym equivalence.  When one cell of the header row of a
\* file is replaced by another spelling of the same role (Symbol, Ticker,
\* SYMBOL; Cost/Share, cost share, COST_SHARE, Cost Per Share; ...), the row
\* resolves to the same columns, or stays no header, and the parse of the file
\* returns the same result: the same records or the same error.
C17_StepRespell ==
    (parsed # None /\ parts' # parts) =>
        /\ detected' = detected
        /\ parsed' = parsed

C17_SynonymEquivalence == [][C17_StepRespell]_vars

\* Every cell of Symbol, Cost/Share, Qty, Sale Price, Date, Date respelled, one
\* at a time: the same columns, and the same error for the row of row 4.
C17_Witness ==
    /\ parts = <<"Ticker", "COST_SHARE", "Quantity", "Price/Share", "Sale Date",
                 "sell-date">>
    /\ body = Some(<<RowAapl, RowReversed>>)
    /\ detected = Some(Some(HeaderIdx(0, 1, 2, 3, 4, 5)))
    /\ parsed = Some(LineError(4, "sale date cannot be before purchase date"))

----------------------------------------------------------------------------
\* C18.  Inside the section, a row whose first cell, or only cell, is total or
\* subtotal in any case is a summary line: it pushes no record, is not adopted
\* as a header, leaves current_ticker, even when the ticker column is column
\* 0, and raises no error, even when its other cells are malformed.
FirstCellIsTotal(raw) ==
    Len(raw) >= 1 /\ ToAsciiLowercase(Trim(raw[1])) \in {"total", "subtotal"}

C18_StepSummary ==
    (StepRow /\ in_details_section /\ FirstCellIsTotal(NewRaw)) =>
        /\ positions' = positions
        /\ header_idx' \in {header_idx, None}
        /\ ~CellHasMarker(NewRaw) => header_idx' = header_idx
        /\ current_ticker' = current_ticker
        /\ result' = None

C18_SummarySkipped == [][C18_StepSummary]_vars

\* Under a header whose ticker column is column 0, after the AAPL row, the
\* row SubTotal,abc,10,110,... was passed over: AAPL is still the ticker.
C18_Witness ==
    /\ rows = <<RowMarker, RowHeader, RowAapl, RowSubtotal>>
    /\ trace = <<"marker", "header", "emit", "summary">>
    /\ Unwrap(header_idx).ticker = 0
    /\ ~IsSome(parse_number(RowSubtotal[2]))
    /\ current_ticker = Some("AAPL")
    /\ Len(positions) = 1
    /\ result = None

----------------------------------------------------------------------------
\* C19.  A row-level error names the first row that fails: the call returns
\* at the first row whose iteration aborts, its error starts with Line <n>:
\* where n is the 1-based ordinal of that row among all the rows read, the
\* skipped ones counted; no row is read after it, and the same file with any
\* row added after it parses to the same error.
Aborted == Returned /\ trace # <<>> /\ trace[Len(trace)] = "abort"

C19_FirstFailingRow ==
    /\ Returned => Outcome = ParseRows(rows)
    /\ \A k \in 1..(Len(trace) - 1) : trace[k] # "abort"
    /\ Aborted =>
           /\ ~Outcome.ok
           /\ StartsWith(Outcome.err, "Line " \o ToString(Len(rows)) \o ": ")
           /\ \A r \in Rows : ParseRows(Append(rows, r)) = Outcome

C19_StepAfterReturn == Returned => UNCHANGED <<rows, trace, positions, result>>

C19_ErrorNamesFirstRow == []C19_FirstFailingRow /\ [][C19_StepAfterReturn]_vars

\* Row 4 failed after a marker row, a header row and a row passed over for a
\* missing field: the error names line 4.
C19_Witness ==
    /\ rows = <<RowMarker, RowHeader, RowMsftPartial, RowBadPrice>>
    /\ trace = <<"marker", "header", "partial", "abort">>
    /\ Aborted
    /\ Outcome = LineError(4, "Invalid sale price")

----------------------------------------------------------------------------
\* C20.  On success the records are returned in file order.  A row pushes at
\* most one record, built from its own cells, at the end of the list, and
\* leaves the records before it as they are; the list returned is the list of
\* the records pushed: none is duplicated, dropped or reordered.
C20_StepPush ==
    StepRow =>
        \/ positions' = positions
        \/ /\ Pushed
           /\ SubSeq(positions', 1, Len(positions)) = positions
           /\ LastPosition.cost_per_share = Unwrap(NewCost)
           /\ LastPosition.quantity = Unwrap(NewQty)
           /\ LastPosition.sale_price = Unwrap(NewSalePrice)
           /\ LastPosition.purchase_date = Unwrap(NewPurchaseDate)
           /\ LastPosition.sale_date = Unwrap(NewSaleDate)

C20_Returned ==
    /\ Len(positions) = Cardinality(EmitRows)
    /\ (Returned /\ Outcome.ok) => Outcome.val = positions

C20_FileOrder == []C20_Returned /\ [][C20_StepPush]_vars

\* Rows 3 and 4 gave the first and the second record returned.
C20_Witness ==
    /\ rows = <<RowMarker, RowHeader, RowAapl, RowSell>>
    /\ EmitRows = {3, 4}
    /\ Returned
    /\ Outcome.ok
    /\ Len(Outcome.val) = 2
    /\ Outcome.val[1].sale_price = RInt(110)
    /\ Outcome.val[2].sale_price = RInt(90)

----------------------------------------------------------------------------
\* Successive calls of parse_positions_csv in one process.

\* The number of calls followed.
MaxCalls == 3

\* A mutation: the ticker context outlives the call.
FreshLocals_KeepTicker(st) ==
    [NewLocals EXCEPT !.current_ticker = st.current_ticker]

\* The four `let mut` at the head of parse_positions_csv: whatever the
\* locals of an earlier call held, a call starts from these.
FreshLocals(st) == NewLocals

RECURSIVE RunCall(_, _, _, _)

\* The end of one iteration of a call, the branches taken kept in tr.
CallStep(out, file, idx, tr) ==
    IF IsSome(out.abort)
    THEN [st |-> out.st, trace |-> Append(tr, out.at),
          res |-> Err(Unwrap(out.abort))]
    ELSE RunCall(out.st, file, idx + 1, Append(tr, out.at))

\* The loop of one call: the locals it ends with, the branches it took and
\* what it returns.
RunCall(st, file, idx, tr) ==
    IF idx >= Len(file)
    THEN [st |-> st, trace |-> tr, res |-> Finish(st.positions)]
    ELSE CallStep(ProcessRecord(st, ReadRecord(file[idx + 1]), LineNo(idx)),
                  file, idx, tr)

\* The files the calls are made on.
CallFiles ==
    {<<RowMarker, RowHeader, RowBlankComplete>>,
     <<RowMarker, RowHeader, RowAapl>>,
     <<RowMarker, RowHeader, RowTickerOnly, RowBadPrice>>,
     <<RowMarker, RowHeader, RowMsftPartial>>,
     <<RowBlankComplete>>,
     <<RowHeader, RowAapl>>}

\* One whole call of parse_positions_csv on a file.
CallParse ==
    /\ Len(calls) < MaxCalls
    /\ \E file \in CallFiles :
         \E out \in {RunCall(FreshLocals(Locals), file, 0, <<>>)} :
             /\ rows' = file
             /\ trace' = out.trace
             /\ header_idx' = out.st.header_idx
             /\ positions' = out.st.positions
             /\ in_details_section' = out.st.in_details_section
             /\ current_ticker' = out.st.current_ticker
             /\ result' = Some(out.res)
             /\ calls' = Append(calls, [file |-> file, res |-> out.res])
    /\ UNCHANGED <<form, form_result, detail, app_vars, header_vars, form_vars>>

NextCalls == CallParse

SpecCalls == Init /\ [][NextCalls]_vars

----------------------------------------------------------------------------
\* The figures of a record.

\* The figures shown and the record they are computed from.
Shown == Unwrap(detail)

\* The fraction r has the value n / d.
SameValue(r, n, d) == r.num * d = n * r.den

\* C22: invested is cost_per_share * quantity, proceeds is sale_price *
\* quantity, the profit is proceeds - invested, and the return times invested
\* is the profit whenever invested is not zero.
C22_Figures ==
    IsSome(detail) =>
        LET c == Shown.pos.cost_per_share
            q == Shown.pos.quantity
            s == Shown.pos.sale_price
            i == Shown.invested
            r == Shown.proceeds
        IN  /\ SameValue(i, c.num * q.num, c.den * q.den)
            /\ SameValue(r, s.num * q.num, s.den * q.den)
            /\ SameValue(Shown.roi_value, r.num * i.den - i.num * r.den,
                         r.den * i.den)
            /\ i.num # 0 =>
                   /\ Shown.roi_pct.cls = "finite"
                   /\ SameValue(Shown.roi_pct.val,
                                Shown.roi_value.num * i.den,
                                Shown.roi_value.den * i.num)

\* 10 shares bought at 100 and sold at 110: 1000 invested, 1100 received,
\* profit 100, return 1/10.
C22_Witness ==
    /\ IsSome(detail)
    /\ Shown.pos.cost_per_share = RInt(100)
    /\ Shown.pos.quantity = RInt(10)
    /\ Shown.pos.sale_price = RInt(110)
    /\ Shown.invested = RInt(1000)
    /\ Shown.proceeds = RInt(1100)
    /\ Shown.roi_value = RInt(100)
    /\ Shown.roi_pct = Finite(Rat(1, 10))

\* The whole days from the purchase date to the sale date of the record shown.
ShownDays == DayNumber(Shown.pos.sale_date) - DayNumber(Shown.pos.purchase_date)

\* C23: days_held is the larger of 1 and the whole days from the purchase
\* date to the sale date, so it is at least 1 for every record.
C23_DaysHeld ==
    IsSome(detail) =>
        /\ Shown.days_held >= 1
        /\ Shown.days_held >= ShownDays
        /\ Shown.days_held \in {1, ShownDays}

\* A record bought and sold on the same day is held 1 day.
C23_Witness ==
    /\ IsSome(detail)
    /\ Shown.pos.purchase_date = Shown.pos.sale_date
    /\ Shown.days_held = 1

\* The record shown has nothing received or nothing invested.
NothingGained ==
    \/ ~RLess(RInt(0), Shown.proceeds)
    \/ ~RLess(RInt(0), Shown.invested)

\* C24: the annualized return is exactly -1 of every record whose proceeds
\* are <= 0 or whose invested amount is <= 0.
C24_MinusOne ==
    IsSome(detail) /\ NothingGained =>
        Shown.annualized_roi = Finite(RInt(-1))

----------------------------------------------------------------------------
\* The records the parser and the form produce.

\* The records pushed so far and the record of the submitted form.
Produced ==
    {positions[i] : i \in 1..Len(positions)}
    \cup
    (IF IsSome(form_result) /\ Unwrap(form_result).ok
     THEN {Unwrap(form_result).val}
     ELSE {})

\* C25: every record produced by the parser or by the form has
\* cost_per_share >= 0 and sale_price >= 0.
C25_NonNegativePrices ==
    \A p \in Produced :
        /\ ~RLess(p.cost_per_share, RInt(0))
        /\ ~RLess(p.sale_price, RInt(0))

\* Not empty, no whitespace at either end, no lower-case letter.
WellFormedTicker(t) ==
    /\ t # ""
    /\ ~IsWhitespace(Ch(t, 1))
    /\ ~IsWhitespace(Ch(t, Len(t)))
    /\ \A i \in 1..Len(t) : ~IsLower(Ch(t, i))

\* C26: the ticker of every record produced is non-empty, trimmed and
\* upper-cased, and so is the ticker context of the parser; a form whose
\* ticker is empty after trimming gives `Ticker cannot be empty`.
C26_Tickers ==
    /\ \A p \in Produced : WellFormedTicker(p.ticker)
    /\ IsSome(current_ticker) => WellFormedTicker(Unwrap(current_ticker))
    /\ IsSome(form) /\ Trim(Unwrap(form)[1]) = "" =>
           form_result = Some(Err("Ticker cannot be empty"))

\* The form's ticker ` aapl ` is stored as AAPL.
C26_Witness ==
    /\ IsSome(form)
    /\ Unwrap(form)[1] = " aapl "
    /\ IsSome(form_result)
    /\ Unwrap(form_result).ok
    /\ Unwrap(form_result).val.ticker = "AAPL"

----------------------------------------------------------------------------
\* The order of the checks on a row.

DateHint == ", expected YYYY-MM-DD or MM/DD/YYYY"

\* The five fields of the new row in the order cost/share, quantity, sale
\* price, purchase date, sale date: is the field valid, and its error.
FieldChecks ==
    <<<<IsSome(NewCost), "Invalid cost/share">>,
      <<IsSome(NewQty), "Invalid quantity">>,
      <<IsSome(NewSalePrice), "Invalid sale price">>,
      <<IsSome(NewPurchaseDate), "Invalid purchase date" \o DateHint>>,
      <<IsSome(NewSaleDate), "Invalid sale date" \o DateHint>>>>

\* The first of the five fields that is invalid.
FirstInvalid == CHOOSE k \in 1..5 :
    ~FieldChecks[k][1] /\ \A j \in 1..(k - 1) : FieldChecks[j][1]

\* The dates of the new row are valid and the wrong way round.
NewReversed ==
    /\ IsSome(NewPurchaseDate)
    /\ IsSome(NewSaleDate)
    /\ DateLess(Unwrap(NewSaleDate), Unwrap(NewPurchaseDate))

C27_StepFirstInvalid ==
    (ActiveHeaderRow /\ NewAllPresent /\ NewHasContext /\ ~NewAllValid) =>
        /\ result' = Some(LineError(Len(rows'), FieldChecks[FirstInvalid][2]))
        /\ positions' = positions

C27_StepDateOrderLast ==
    (ActiveHeaderRow /\ NewAllPresent /\ NewHasContext /\ NewReversed) =>
        (result' = Some(LineError(Len(rows'),
                                  "sale date cannot be before purchase date"))
            <=> NewAllValid)

\* C27: a qualifying row with invalid fields aborts with the error of the
\* first invalid field in the order cost/share, quantity, sale price, purchase
\* date, sale date; the date-order error is reported only when all five
\* fields are valid.
C27_FirstInvalidField ==
    [][C27_StepFirstInvalid /\ C27_StepDateOrderLast]_vars

\* A row with an invalid cost and reversed dates reports the invalid cost.
C27_Witness ==
    /\ rows = <<RowMarker, RowHeader, RowAapl, RowBadCostReversed>>
    /\ result = Some(LineError(4, "Invalid cost/share"))

----------------------------------------------------------------------------
\* The ticker context across sections.

\* The header under which row k was read: the one adopted last before it.
HeaderOver(k) ==
    LET adopted == {h \in 1..(k - 1) : trace[h] = "header"}
        last    == CHOOSE h \in adopted : \A g \in adopted : g <= h
    IN  Unwrap(detect_header(ReadRecord(rows[last])))

\* Row j was read as a data row.
DataRowAt(j) == trace[j] \in {"partial", "nocontext", "emit", "abort"}

\* The ticker cell of data row j, trimmed.
TickerCellAt(j) == Trim(Get(rows[j], HeaderOver(j).ticker))

\* The data rows up to row k that name a ticker, in any section.
NamedUpTo(k) == {j \in 1..k : DataRowAt(j) /\ NamesTicker(TickerCellAt(j))}

\* The ticker named last up to row k.
LastNamed(k) ==
    LET last == CHOOSE j \in NamedUpTo(k) : \A i \in NamedUpTo(k) : i <= j
    IN  ToAsciiUppercase(TickerCellAt(last))

\* The record that row k pushed.
RecordOf(k) == positions[Cardinality({e \in EmitRows : e <= k})]

C28_TickerFromAnySection ==
    \A k \in 1..Len(trace) :
        /\ trace[k] = "emit" =>
               NamedUpTo(k) # {} /\ RecordOf(k).ticker = LastNamed(k)
        /\ trace[k] = "nocontext" => NamedUpTo(k) = {}

C28_StepKeepsTicker ==
    (StepRow /\ (IsSectionMarker(NewFields) \/ header_idx = None)) =>
        current_ticker' = current_ticker

\* C28: a section marker resets the header and not the ticker context: a
\* record takes the ticker named last before it in whatever section, and a
\* marker row or a header row leaves the context as it was.
C28_ContextSurvivesMarker ==
    /\ []C28_TickerFromAnySection
    /\ [][C28_StepKeepsTicker]_vars

\* AAPL is named in the first section; the complete row with a blank ticker
\* cell in the second section is emitted as AAPL.
C28_Witness ==
    /\ rows = <<RowMarker, RowHeader, RowTickerOnly, RowMarker, RowHeader,
                RowBlankComplete>>
    /\ trace[6] = "emit"
    /\ Len(positions) = 1
    /\ positions[1].ticker = "AAPL"
    /\ current_ticker = Some("AAPL")

----------------------------------------------------------------------------
\* A header row repeated inside its section.

\* The new row has the text of a header row with the columns of the active
\* header.
NewRepeatsHeader == ActiveHeaderRow /\ detect_header(NewFields) = header_idx

C29_StepRepeatedHeader ==
    NewRepeatsHeader =>
        /\ header_idx' = header_idx
        /\ positions' = positions
        /\ current_ticker' = Some(ToAsciiUppercase(NewTickerCell))
        /\ trace'[Len(trace')] = "abort"
        /\ result' = Some(LineError(Len(rows'), "Invalid cost/share"))

\* C29: with a header active a row that repeats the header text is read as a
\* data row: the header stays as it is, the row's ticker cell becomes the
\* ticker context and the call returns `Line <n>: Invalid cost/share`.
C29_RepeatedHeaderIsData == [][C29_StepRepeatedHeader]_vars

\* The header row a second time, as row 3.
C29_Witness ==
    /\ rows = <<RowMarker, RowHeader, RowHeader>>
    /\ trace = <<"marker", "header", "abort">>
    /\ current_ticker = Some("SYMBOL")
    /\ header_idx = detect_header(RowHeader)
    /\ result = Some(LineError(3, "Invalid cost/share"))

----------------------------------------------------------------------------
\* Summary lines of one cell and of several cells.

\* The cell holds the letters t, o, t, a, l in a row, in any case.
HasTotal(c) ==
    \E i \in 1..(Len(c) - 4) : ToAsciiLowercase(SubSeq(c, i, i + 4)) = "total"

\* The new row was skipped as a summary line.
NewSkippedAsSummary == StepRow /\ trace'[Len(trace')] = "summary"

C30_StepSingleCell ==
    (/\ StepRow
     /\ in_details_section
     /\ Len(NewRaw) = 1
     /\ HasTotal(NewRaw[1])
     /\ ~CellHasMarker(NewRaw)) =>
        /\ NewSkippedAsSummary
        /\ current_ticker' = current_ticker
        /\ header_idx' = header_idx
        /\ positions' = positions
        /\ result' = None

C30_StepSeveralCells ==
    (NewSkippedAsSummary /\ Len(NewRaw) > 1) => FirstCellIsTotal(NewRaw)

\* C30: inside the section a row of one cell is skipped as a summary line as
\* soon as the cell contains `total`, and sets no ticker context; a row of
\* several cells is skipped as a summary line only when its first cell is
\* `total` or `subtotal`.
C30_SummaryBySubstring ==
    [][C30_StepSingleCell /\ C30_StepSeveralCells]_vars

\* Under a header with the ticker in column 0, the one-cell row ` Grand Total `
\* is skipped and names no ticker; the six-cell row starting `Total Return`
\* is read as a data row and gives a record.
C30_Witness ==
    /\ rows = <<RowMarker, RowHeader, RowGrandTotal, RowTotalReturn>>
    /\ Unwrap(header_idx).ticker = 0
    /\ trace = <<"marker", "header", "summary", "emit">>
    /\ Len(positions) = 1
    /\ positions[1].ticker = "TOTAL RETURN"

----------------------------------------------------------------------------
\* The import seen from the application.

C34_StepSuccess ==
    (StepImport /\ TypedParse.ok) =>
        LET new == TypedParse.val
            old == Len(app_positions)
        IN  /\ Len(new) >= 1
            /\ Len(app_positions') = old + Len(new)
            /\ \A k \in 1..old : app_positions'[k] = app_positions[k]
            /\ \A k \in 1..Len(new) : app_positions'[old + k] = new[k]
            /\ import_message' =
                   Some("Imported " \o ToString(Len(new)) \o " positions")
            /\ import_error' = None
            /\ mode' = "Portfolio"

C34_StepFailure ==
    (mode = "Import" /\ key' = "Enter" /\ (TypedPath = "" \/ ~TypedParse.ok)) =>
        /\ mode' = "Import"
        /\ IsSome(import_error')
        /\ TypedPath # "" => import_error' = Some(TypedParse.err)
        /\ import_message' = None
        /\ app_positions' = app_positions

\* C34: a successful import keeps every position at its index and puts the
\* parsed records after them in parsed order, reports their number, which is
\* at least 1, and goes from Import to Portfolio; a failed import stays in
\* Import with the error stored and no success message.
C34_ImportAppends == [][C34_StepSuccess /\ C34_StepFailure]_vars

\* The file aa, of two records, imported into the seed portfolio of three.
C34_Witness ==
    /\ key = "Enter"
    /\ import_path = "aa"
    /\ mode = "Portfolio"
    /\ import_message = Some("Imported 2 positions")
    /\ Len(app_positions) = 5
    /\ SubSeq(app_positions, 4, 5) = parse_positions_csv("aa").val
    /\ \E today \in Todays : SubSeq(app_positions, 1, 3) = seed_positions(today)

----------------------------------------------------------------------------
\* The application: selection, deletion and the add/edit form.

\* The numbers of a set in ascending order: the Vec a filter over
\* enumerate() collects.
Ascending(S) ==
    [k \in 1..Cardinality(S) |->
        CHOOSE x \in S : Cardinality({y \in S : y < x}) = k - 1]

\* filtered.iter().position(|&i| i == selected).unwrap_or(0)
PositionOr0(filtered, sel) ==
    IF \E k \in 1..Len(filtered) : filtered[k] = sel
    THEN (CHOOSE k \in 1..Len(filtered) : filtered[k] = sel) - 1
    ELSE 0

\* A mutation: the next index of the whole list, shown or not.
select_next_Unfiltered(app) ==
    IF Len(app.positions) = 0 THEN [app EXCEPT !.selected = 0]
    ELSE [app EXCEPT !.selected = (app.selected + 1) % Len(app.positions)]

select_next(app) ==
    LET filtered == Ascending(filtered_indices(app))
        current  == PositionOr0(filtered, app.selected)
    IN  IF Len(filtered) = 0 THEN [app EXCEPT !.selected = 0]
        ELSE [app EXCEPT !.selected = filtered[((current + 1) % Len(filtered)) + 1]]

select_prev(app) ==
    LET filtered == Ascending(filtered_indices(app))
        current  == PositionOr0(filtered, app.selected)
        prev     == IF current = 0 THEN Len(filtered) - 1 ELSE current - 1
    IN  IF Len(filtered) = 0 THEN [app EXCEPT !.selected = 0]
        ELSE [app EXCEPT !.selected = filtered[prev + 1]]

\* self.positions.get(self.selected)
selected_position(app) ==
    IF app.selected < Len(app.positions)
    THEN Some(app.positions[app.selected + 1])
    ELSE None

\* Vec::remove(index), index < len.
Remove(ps, index) == SubSeq(ps, 1, index) \o SubSeq(ps, index + 2, Len(ps))

\* delete_selected: the app after the call; Vec::remove panics on an index
\* that is not below the length.
delete_selected(app) ==
    IF Len(app.positions) = 0 THEN [app |-> app, panic |-> FALSE]
    ELSE IF app.selected >= Len(app.positions) THEN [app |-> app, panic |-> TRUE]
    ELSE LET ps      == Remove(app.positions, app.selected)
             sel     == IF Len(ps) = 0 THEN 0
                        ELSE IF app.selected >= Len(ps) THEN Len(ps) - 1
                        ELSE app.selected
             removed == [app EXCEPT !.positions = ps, !.selected = sel]
         IN  [app   |-> save_positions(IF Len(ps) # 0
                                       THEN ensure_selection_visible(removed)
                                       ELSE removed),
              panic |-> FALSE]

\* The decimal digits of n in at least width places.
Padded(n, width) ==
    LET s == ToString(n)
    IN  IF Len(s) >= width THEN s
        ELSE SubSeq("0000", 1, width - Len(s)) \o s

\* format!("{:.places}", x): x rounded to that many decimal places, a tie to
\* the even digit.
FormatFixed(x, places) ==
    LET scaled  == Abs(x.num) * Pow10(places)
        q       == scaled \div x.den
        rem     == scaled % x.den
        rounded == IF 2 * rem > x.den \/ (2 * rem = x.den /\ q % 2 = 1)
                   THEN q + 1 ELSE q
    IN  (IF x.num < 0 THEN "-" ELSE "")
            \o ToString(rounded \div Pow10(places)) \o "."
            \o Padded(rounded % Pow10(places), places)

\* NaiveDate::format("%Y-%m-%d")
FormatDate(dt) ==
    Padded(dt.y, 4) \o "-" \o Padded(dt.m, 2) \o "-" \o Padded(dt.d, 2)

\* AddForm::from_position: the six field values.
from_position(pos) ==
    <<pos.ticker, FormatFixed(pos.cost_per_share, 2), FormatFixed(pos.quantity, 4),
      FormatFixed(pos.sale_price, 2), FormatDate(pos.purchase_date),
      FormatDate(pos.sale_date)>>

AddFormNew == <<"", "", "", "", "", "">>

\* AddForm::on_enter: the active field is the last one.
on_enter(a) == a >= 5

next_field(a) == (a + 1) % 6

prev_field(a) == IF a = 0 THEN 5 ELSE a - 1

\* String::pop
Pop(s) == IF s = "" THEN "" ELSE SubSeq(s, 1, Len(s) - 1)

\* The portfolio grows by the form and by imports while it has fewer
\* positions than this.
MaxKept == 2

\* The longest filter text typed.
MaxFilter == 1

\* The characters typed into the filter.
FilterChars == {"a", "x"}

\* The characters typed into the form.
FormChars == {"a", "1", "2", "-"}

\* The texts the user leaves in the six fields of the form.
FieldTexts ==
    <<{"", "a", "MSFTa"}, {"1"}, {"1"}, {"2"}, {"1-1-2"}, {"1-1-2", "1-1-1"}>>

\* The user moves on from 0-based field i when it holds one of these texts or
\* the value of a position of the portfolio.
Whole(i) ==
    FieldTexts[i + 1]
        \cup {from_position(app_positions[k])[i + 1] : k \in 1..Len(app_positions)}

\* The texts of field i on the way to one of the texts above.
Typable(i) ==
    {""} \cup UNION {{SubSeq(t, 1, n) : n \in 1..Len(t)} : t \in FieldTexts[i + 1]}

import_vars == <<import_path, import_error, import_message>>

the_form == <<fields, active, form_error>>

\* Mode::Portfolio, Mode::Detail and Mode::Help, KeyCode::Char('q'): break.
KeyQuit ==
    /\ Handling({"Portfolio", "Detail", "Help"})
    /\ run_app' = "returned"
    /\ key' = ""
    /\ UNCHANGED <<app_positions, selected, mode, filter_text, disk, import_vars,
                   editing, filter_editing, the_form>>
    /\ UNCHANGED <<parser_vars, header_vars>>

\* Mode::Portfolio and Mode::Detail, KeyCode::Char('a').
KeyAdd ==
    /\ Handling({"Portfolio", "Detail"})
    /\ mode' = "AddForm"
    /\ fields' = AddFormNew
    /\ active' = 0
    /\ form_error' = None
    /\ editing' = None
    /\ key' = ""
    /\ UNCHANGED <<app_positions, selected, filter_text, disk, import_vars,
                   filter_editing, run_app>>
    /\ UNCHANGED <<parser_vars, header_vars>>

\* Mode::Portfolio, KeyCode::Char('d') | KeyCode::Enter.
KeyDetail ==
    /\ Handling({"Portfolio"})
    /\ mode' = IF filtered_indices(TheApp) # {} THEN "Detail" ELSE mode
    /\ key' = ""
    /\ UNCHANGED <<app_positions, selected, filter_text, disk, import_vars,
                   form_vars>>
    /\ UNCHANGED <<parser_vars, header_vars>>

\* Mode::Portfolio and Mode::Detail, KeyCode::Char('e').
KeyEdit ==
    /\ Handling({"Portfolio", "Detail"})
    /\ IF IsSome(selected_position(TheApp))
       THEN /\ mode' = "AddForm"
            /\ editing' = Some(selected)
            /\ fields' = from_position(Unwrap(selected_position(TheApp)))
            /\ active' = 0
            /\ form_error' = None
       ELSE UNCHANGED <<mode, editing, the_form>>
    /\ key' = ""
    /\ UNCHANGED <<app_positions, selected, filter_text, disk, import_vars,
                   filter_editing, run_app>>
    /\ UNCHANGED <<parser_vars, header_vars>>

\* Mode::Portfolio and Mode::Detail, KeyCode::Char('x') | KeyCode::Delete.
KeyDelete ==
    /\ Handling({"Portfolio", "Detail"})
    /\ \E out \in {delete_selected(TheApp)} :
         IF out.panic
         THEN /\ run_app' = "panicked"
              /\ UNCHANGED <<app_positions, selected, disk, mode>>
         ELSE /\ app_positions' = out.app.positions
              /\ selected' = out.app.selected
              /\ disk' = out.app.disk
              /\ mode' = "Portfolio"
              /\ UNCHANGED run_app
    /\ key' = ""
    /\ UNCHANGED <<filter_text, import_vars, editing, filter_editing, the_form>>
    /\ UNCHANGED <<parser_vars, header_vars>>

\* Mode::Portfolio, KeyCode::Char('h').
KeyHelp ==
    /\ Handling({"Portfolio"})
    /\ mode' = "Help"
    /\ key' = ""
    /\ UNCHANGED <<app_positions, selected, filter_text, disk, import_vars,
                   form_vars>>
    /\ UNCHANGED <<parser_vars, header_vars>>

\* Mode::Portfolio and Mode::Detail, KeyCode::Char('f') | KeyCode::Char('/').
KeyFilter ==
    /\ Handling({"Portfolio", "Detail"})
    /\ filter_editing' = TRUE
    /\ key' = ""
    /\ UNCHANGED <<app_positions, selected, mode, filter_text, disk, import_vars,
                   editing, the_form, run_app>>
    /\ UNCHANGED <<parser_vars, header_vars>>

\* Mode::Portfolio and Mode::Detail, KeyCode::Down.
KeyDown ==
    /\ Handling({"Portfolio", "Detail"})
    /\ selected' = select_next(TheApp).selected
    /\ key' = ""
    /\ UNCHANGED <<app_positions, mode, filter_text, disk, import_vars, form_vars>>
    /\ UNCHANGED <<parser_vars, header_vars>>

\* Mode::Portfolio and Mode::Detail, KeyCode::Up.
KeyUp ==
    /\ Handling({"Portfolio", "Detail"})
    /\ selected' = select_prev(TheApp).selected
    /\ key' = ""
    /\ UNCHANGED <<app_positions, mode, filter_text, disk, import_vars, form_vars>>
    /\ UNCHANGED <<parser_vars, header_vars>>

\* Mode::Detail, KeyCode::Esc | KeyCode::Char('b'), and Mode::Help,
\* KeyCode::Esc | KeyCode::Char('b') | KeyCode::Enter.
KeyBack ==
    /\ Handling({"Detail", "Help"})
    /\ mode' = "Portfolio"
    /\ key' = ""
    /\ UNCHANGED <<app_positions, selected, filter_text, disk, import_vars,
                   form_vars>>
    /\ UNCHANGED <<parser_vars, header_vars>>

\* A mutation: the record built is pushed although a position is edited.
StoreBuilt_Push(app, edit, pos) ==
    LET ps == Append(app.positions, pos)
        stored == [app EXCEPT !.positions = ps, !.selected = Len(ps) - 1]
    IN  [app |-> save_positions(ensure_selection_visible(stored)), panic |-> FALSE]

\* The Ok arm of the form's Enter: the record built replaces the edited
\* position or is pushed, and the list is saved.  The assignment to
\* positions[idx] panics on an index that is not below the length.
StoreBuilt(app, edit, pos) ==
    IF IsSome(edit) /\ Unwrap(edit) >= Len(app.positions)
    THEN [app |-> app, panic |-> TRUE]
    ELSE LET ps     == IF IsSome(edit)
                       THEN [app.positions EXCEPT ![Unwrap(edit) + 1] = pos]
                       ELSE Append(app.positions, pos)
             sel    == IF IsSome(edit) THEN Unwrap(edit) ELSE Len(ps) - 1
             stored == [app EXCEPT !.positions = ps, !.selected = sel]
         IN  [app   |-> save_positions(ensure_selection_visible(stored)),
              panic |-> FALSE]

\* The form is as it was opened.
Untouched ==
    /\ active = 0
    /\ form_error = None
    /\ IF IsSome(editing)
       THEN fields = from_position(Unwrap(selected_position(TheApp)))
       ELSE fields = AddFormNew

\* Mode::AddForm, KeyCode::Esc.  The user cancels a form as it was opened, or
\* an edit that was refused.
FormEsc ==
    /\ Handling({"AddForm"})
    /\ Untouched \/ (IsSome(editing) /\ IsSome(form_error))
    /\ mode' = "Portfolio"
    /\ editing' = None
    /\ form_error' = None
    /\ key' = ""
    /\ UNCHANGED <<app_positions, selected, filter_text, disk, import_vars,
                   filter_editing, fields, active, run_app>>
    /\ UNCHANGED <<parser_vars, header_vars>>

\* Mode::AddForm, KeyCode::Enter on the last field: the form is submitted.
FormSubmit ==
    /\ Handling({"AddForm"})
    /\ on_enter(active)
    /\ IsSome(editing) \/ Len(app_positions) < MaxKept
    /\ \E built \in {try_build_position(fields)} :
         IF built.ok
         THEN \E out \in {StoreBuilt(TheApp, editing, built.val)} :
                  IF out.panic
                  THEN /\ run_app' = "panicked"
                       /\ UNCHANGED <<app_positions, selected, disk, mode, editing,
                                      form_error>>
                  ELSE /\ app_positions' = out.app.positions
                       /\ selected' = out.app.selected
                       /\ disk' = out.app.disk
                       /\ mode' = "Portfolio"
                       /\ editing' = None
                       /\ form_error' = None
                       /\ UNCHANGED run_app
         ELSE /\ form_error' = Some(built.err)
              /\ UNCHANGED <<app_positions, selected, disk, mode, editing, run_app>>
    /\ key' = ""
    /\ UNCHANGED <<filter_text, import_vars, filter_editing, fields, active>>
    /\ UNCHANGED <<parser_vars, header_vars>>

\* Mode::AddForm, KeyCode::Enter, KeyCode::Tab and KeyCode::Right on a field
\* before the last one: next_field.  The user moves on from a whole value.
FormNext ==
    /\ Handling({"AddForm"})
    /\ fields[active + 1] \in Whole(active)
    /\ ~on_enter(active)
    /\ key' = ""
    /\ active' = next_field(active)
    /\ UNCHANGED <<app_positions, selected, mode, filter_text, disk, import_vars,
                   editing, filter_editing, fields, form_error, run_app>>
    /\ UNCHANGED <<parser_vars, header_vars>>

\* Mode::AddForm, KeyCode::BackTab: prev_field.  The user goes back from a
\* field that is still empty.
FormPrev ==
    /\ Handling({"AddForm"})
    /\ active > 0
    /\ fields[active + 1] = ""
    /\ active' = prev_field(active)
    /\ key' = ""
    /\ UNCHANGED <<app_positions, selected, mode, filter_text, disk, import_vars,
                   editing, filter_editing, fields, form_error, run_app>>
    /\ UNCHANGED <<parser_vars, header_vars>>

\* Mode::AddForm, KeyCode::Backspace and KeyCode::Left: the last character
\* of the active field is dropped.
FormBackspace ==
    /\ Handling({"AddForm"})
    /\ Pop(fields[active + 1]) \in Typable(active)
    /\ fields' = [fields EXCEPT ![active + 1] = Pop(@)]
    /\ key' = ""
    /\ UNCHANGED <<app_positions, selected, mode, filter_text, disk, import_vars,
                   editing, filter_editing, active, form_error, run_app>>
    /\ UNCHANGED <<parser_vars, header_vars>>

\* Mode::AddForm, KeyCode::Char(c) with no modifier or with Shift.
FormChar ==
    /\ Handling({"AddForm"})
    /\ \E c \in FormChars :
         /\ fields[active + 1] \o c \in Typable(active)
         /\ fields' = [fields EXCEPT ![active + 1] = @ \o c]
    /\ key' = ""
    /\ UNCHANGED <<app_positions, selected, mode, filter_text, disk, import_vars,
                   editing, filter_editing, active, form_error, run_app>>
    /\ UNCHANGED <<parser_vars, header_vars>>

\* A key event while the filter is edited.
Filtering == run_app = "running" /\ filter_editing

\* filter_editing, KeyCode::Esc and KeyCode::Enter.
FilterEnd ==
    /\ Filtering
    /\ filter_editing' = FALSE
    /\ \E k \in {"Esc", "Enter"} : key' = k
    /\ UNCHANGED <<app_positions, selected, mode, filter_text, disk, import_vars,
                   editing, the_form, run_app>>
    /\ UNCHANGED <<parser_vars, header_vars>>

\* filter_editing, KeyCode::Backspace.
FilterBackspace ==
    /\ Filtering
    /\ filter_text' = Pop(filter_text)
    /\ selected' = ensure_selection_visible(
                       [TheApp EXCEPT !.filter_text = Pop(filter_text)]).selected
    /\ key' = "Backspace"
    /\ UNCHANGED <<app_positions, mode, disk, import_vars, form_vars>>
    /\ UNCHANGED <<parser_vars, header_vars>>

\* filter_editing, KeyCode::Char(c) with no modifier or with Shift.
FilterChar ==
    /\ Filtering
    /\ Len(filter_text) < MaxFilter
    /\ \E c \in FilterChars :
         /\ filter_text' = filter_text \o c
         /\ selected' = ensure_selection_visible(
                            [TheApp EXCEPT !.filter_text = filter_text \o c]).selected
    /\ key' = "Char"
    /\ UNCHANGED <<app_positions, mode, disk, import_vars, form_vars>>
    /\ UNCHANGED <<parser_vars, header_vars>>

\* The import of a file into a portfolio that may still grow.
KeptImportEnter == Len(app_positions) < MaxKept /\ ImportEnter

\* The first character of a path.
FirstImportChar == import_path = "" /\ ImportChar

NextKeys ==
    \/ KeyQuit \/ KeyAdd \/ KeyImport \/ KeyDetail \/ KeyEdit \/ KeyDelete
    \/ KeyHelp \/ KeyFilter \/ KeyDown \/ KeyUp \/ KeyBack
    \/ ImportEsc \/ FirstImportChar \/ ImportBackspace \/ KeptImportEnter
    \/ FormEsc \/ FormSubmit \/ FormNext \/ FormPrev \/ FormBackspace \/ FormChar
    \/ FilterEnd \/ FilterBackspace \/ FilterChar

SpecKeys == InitApp /\ [][NextKeys]_vars


\* ---------------------------------------------------------------------------
\* C31: the selection stays inside the portfolio and inside the filter
\* ---------------------------------------------------------------------------

\* The indices of the positions shown under the filter text.
Matching == filtered_indices(TheApp)

\* C31: after any sequence of key events, selected is 0 when the portfolio is
\* empty and less than the number of positions otherwise; whenever a position
\* matches the filter text the selected index is one of the matching indices;
\* the index being edited is inside the portfolio, and neither delete_selected
\* nor the assignment of the edited position indexes out of bounds.
C31_SelectionInvariant ==
    /\ Len(app_positions) = 0 => selected = 0
    /\ Len(app_positions) > 0 => selected < Len(app_positions)
    /\ Matching # {} => selected \in Matching
    /\ IsSome(editing) => Unwrap(editing) < Len(app_positions)
    /\ run_app # "panicked"

\* A second position was added while the filter shows only it, and the
\* selection moved down to it.
C31_Witness ==
    /\ run_app = "running"
    /\ mode = "Portfolio"
    /\ filter_text = "a"
    /\ Len(app_positions) = 2
    /\ Matching = {1}
    /\ selected = 1
    /\ disk = Some(app_positions)


\* ---------------------------------------------------------------------------
\* C32: delete and edit under a filter that shows nothing
\* ---------------------------------------------------------------------------

\* C32: the delete key and the edit key act only on a position that is shown
\* under the filter text: a delete that removes a position, and an edit that
\* opens one, take the selected index from the matching indices, so with a
\* filter text that matches no position the delete key removes nothing.
C32_ActsOnShownOnly ==
    [][/\ (KeyDelete /\ app_positions' # app_positions) => selected \in Matching
       /\ (KeyEdit /\ IsSome(editing')) => selected \in Matching]_vars


\* ---------------------------------------------------------------------------
\* C33: an edit replaces one position in place
\* ---------------------------------------------------------------------------

\* The form is open on the position at the index in `editing`.
EditOpen == Handling({"AddForm"}) /\ IsSome(editing)

\* `editing` is Some(i) only in Mode::AddForm, and then i is an index of the
\* portfolio.
C33_EditingInForm ==
    IsSome(editing) => mode = "AddForm" /\ Unwrap(editing) < Len(app_positions)

\* A save of the edit form that validates puts the record built at the index
\* edited and keeps the length and every other entry.
C33_StepSave ==
    (EditOpen /\ FormSubmit /\ try_build_position(fields).ok) =>
        /\ Len(app_positions') = Len(app_positions)
        /\ \A k \in 1..Len(app_positions) :
               app_positions'[k] = IF k = Unwrap(editing) + 1
                                   THEN try_build_position(fields).val
                                   ELSE app_positions[k]
        /\ disk' = Some(app_positions')
        /\ mode' = "Portfolio"
        /\ editing' = None

\* A save that does not validate keeps the portfolio, the mode and the index
\* edited, and stores the error.
C33_StepRefused ==
    (EditOpen /\ FormSubmit /\ ~try_build_position(fields).ok) =>
        /\ app_positions' = app_positions
        /\ disk' = disk
        /\ mode' = "AddForm"
        /\ editing' = editing
        /\ form_error' = Some(try_build_position(fields).err)

\* Esc keeps the portfolio, clears `editing` and returns to Mode::Portfolio.
C33_StepEsc ==
    (EditOpen /\ FormEsc) =>
        /\ app_positions' = app_positions
        /\ disk' = disk
        /\ mode' = "Portfolio"
        /\ editing' = None

\* No other key of the edit form changes the portfolio.
C33_StepOther ==
    (EditOpen /\ ~FormSubmit) =>
        /\ app_positions' = app_positions
        /\ disk' = disk

\* C33: `editing` is Some(i) only while the mode is AddForm, and then i is
\* below the number of positions; a save that validates replaces exactly
\* positions[i] with the record built and keeps the length and every other
\* entry; a save that does not validate, and Esc, keep the whole portfolio,
\* and Esc also clears `editing` and returns to Portfolio mode.
C33_EditInPlace ==
    /\ []C33_EditingInForm
    /\ [][C33_StepSave /\ C33_StepRefused /\ C33_StepEsc /\ C33_StepOther]_vars

\* The first of two positions, the one of the data file, was edited: its
\* ticker got a letter more and nothing else changed.
C33_Witness ==
    /\ mode = "Portfolio"
    /\ editing = None
    /\ fields[1] = "MSFTa"
    /\ Len(app_positions) = 2
    /\ selected = 0
    /\ \E ps \in DataFiles :
           /\ Len(ps) = 1
           /\ fields = [from_position(ps[1]) EXCEPT ![1] = "MSFTa"]
           /\ app_positions[1] = [ps[1] EXCEPT !.ticker = "MSFTA"]
    /\ disk = Some(app_positions)


\* ---------------------------------------------------------------------------
\* C35: the filter consumes every key while it is edited
\* ---------------------------------------------------------------------------

\* While the filter is edited a key changes nothing but the filter.
C35_StepConsumed ==
    filter_editing =>
        /\ mode' = mode
        /\ app_positions' = app_positions
        /\ disk' = disk
        /\ editing' = editing
        /\ the_form' = the_form
        /\ import_vars' = import_vars
        /\ run_app' = run_app

\* A character typed is put at the end of the filter text, whatever it means
\* to the mode, and the editing goes on.
C35_StepChar ==
    (filter_editing /\ key' = "Char") =>
        /\ filter_editing'
        /\ \E c \in FilterChars : filter_text' = filter_text \o c

\* Esc and Enter, and no other key, end the editing; they keep the filter
\* text and the selection.
C35_StepEnd ==
    filter_editing =>
        /\ ~filter_editing' <=> key' \in {"Esc", "Enter"}
        /\ ~filter_editing' => filter_text' = filter_text /\ selected' = selected

\* C35: while filter_editing is true no key changes the mode, adds, edits or
\* deletes a position, or quits the application: a character only extends the
\* filter text, even one that is a command of the mode; only Esc and Enter
\* end the editing, and neither changes the mode or the filter text.
C35_FilterConsumesKeys ==
    [][C35_StepConsumed /\ C35_StepChar /\ C35_StepEnd]_vars

\* `x`, the delete key of the list, was typed into the filter of the seed
\* portfolio: the three positions are there and nothing was saved.
C35_Witness ==
    /\ run_app = "running"
    /\ filter_editing
    /\ key = "Char"
    /\ filter_text = "x"
    /\ mode = "Portfolio"
    /\ Len(app_positions) = 3
    /\ disk = None
========================================================================
